---- MODULE Spec2Model ----
(***************************************************************************)
(* Model of the OpenAPI -> NestJS generator: the endpoint compiler         *)
(* (ControllerGenerator) and the schema-to-model compiler (DtoGenerator).  *)
(* Strings of the program are sequences of one-character strings, so that  *)
(* concatenation, capitalisation, suffix stripping and comparison are      *)
(* computed character by character as the code computes them.              *)
(***************************************************************************)
EXTENDS Integers, Sequences, FiniteSets, TLC

VARIABLES
    pc,          \* position of the generation pass that is modelled
    config,      \* GeneratorConfig.generatorOptions.includeErrorTypesInReturnType
    includeErrorTypesInReturnType, \* the field of the ControllerGenerator
    operation,   \* the OpenAPI operation handed to processOperation
    originalSpec,\* spec._originalSpec: the operations of the pre-dereference document
    method,      \* the ControllerMethod built by processOperation
    returnType,  \* the members of the return type computed by getReturnType
    depMap,      \* the dependency map handed to topologicalSort
    sorted,      \* the sequence returned by topologicalSort
    document,    \* components.schemas as the document was written ($ref intact)
    hasOriginal, \* whether the spec carries _originalSpec
    requested,   \* the dtoName handed to generateDto, <<>> for generateAllDtos
    nestedDtoSchemas, \* the map of inline schemas built by generateAllDtos
    batch,       \* the models handed to the template
    enums,       \* the enum descriptors handed to the template
    outcome,     \* "none", "rendered", "RangeError" (call stack exhausted)
                 \* or "TypeError" (generateMethodName)
    pass,        \* generateFromSpec: configuration, spec file and position
    renderedTemplates, \* the templates rendered for the spec file
    writtenFiles, \* the output files written for the spec file
    previous,    \* what the pass before handed over, <<>> during the first pass
    watch,       \* options.watch of the command line
    specPaths,   \* the spec files findSpecs returns, in its order
    events,      \* the number of file events the watcher has emitted
    runs,        \* the calls of GeneratorOrchestrator.generate, in start order
    outputFiles, \* the output files on disk
    exitCode     \* the exit code of the process ("0", "1"), "none" while it runs

controllerVars ==
    <<config, includeErrorTypesInReturnType, operation, originalSpec, method, returnType>>

dtoVars ==
    <<document, hasOriginal, requested, nestedDtoSchemas, batch, enums, outcome>>

orchestratorVars == <<pass, renderedTemplates, writtenFiles>>

processVars == <<watch, specPaths, events, runs, outputFiles, exitCode>>

vars ==
    <<pc, controllerVars, depMap, sorted, dtoVars, orchestratorVars, previous,
      processVars>>

\* no command line is modelled and no pass is repeated
NoProcess ==
    /\ previous = <<>>
    /\ watch = FALSE
    /\ specPaths = <<>>
    /\ events = 0
    /\ runs = <<>>
    /\ outputFiles = {}
    /\ exitCode = "none"

\* no pass of the orchestrator is modelled
NoPass ==
    /\ pass = [step |-> "none"]
    /\ renderedTemplates = {}
    /\ writtenFiles = {}
    /\ NoProcess

----------------------------------------------------------------------------
(* Characters and strings *)

LowerLetters ==
    <<"a","b","c","d","e","f","g","h","i","j","k","l","m",
      "n","o","p","q","r","s","t","u","v","w","x","y","z">>

UpperLetters ==
    <<"A","B","C","D","E","F","G","H","I","J","K","L","M",
      "N","O","P","Q","R","S","T","U","V","W","X","Y","Z">>

Range(s) == {s[i] : i \in 1..Len(s)}

IsLower(c) == c \in Range(LowerLetters)

IsUpper(c) == c \in Range(UpperLetters)

IsLetter(c) == IsLower(c) \/ IsUpper(c)

LetterIndex(c) ==
    IF IsLower(c) THEN CHOOSE i \in 1..26 : LowerLetters[i] = c
    ELSE CHOOSE i \in 1..26 : UpperLetters[i] = c

Digits == <<"0","1","2","3","4","5","6","7","8","9">>

IsDigit(c) == c \in Range(Digits)

DigitValue(c) == (CHOOSE i \in 1..10 : Digits[i] = c) - 1

\* String.prototype.toUpperCase on one character
ToUpper(c) == IF IsLower(c) THEN UpperLetters[LetterIndex(c)] ELSE c

\* String.prototype.toLowerCase on one character
ToLower(c) == IF IsUpper(c) THEN LowerLetters[LetterIndex(c)] ELSE c

\* str.charAt(0).toUpperCase() + str.slice(1)
capitalize(str) ==
    IF str = <<>> THEN <<>> ELSE <<ToUpper(str[1])>> \o Tail(str)

\* str.replace(/-([a-zA-Z])/g, upper).replace(/^[A-Z]/, lower)
RECURSIVE HyphenToUpper(_)
HyphenToUpper(str) ==
    IF str = <<>> THEN <<>>
    ELSE IF str[1] = "-" /\ Len(str) >= 2 /\ IsLetter(str[2])
         THEN <<ToUpper(str[2])>> \o HyphenToUpper(SubSeq(str, 3, Len(str)))
         ELSE <<str[1]>> \o HyphenToUpper(Tail(str))

toCamelCase(str) ==
    LET s == HyphenToUpper(str)
    IN  IF s # <<>> /\ IsUpper(s[1]) THEN <<ToLower(s[1])>> \o Tail(s) ELSE s

\* Collation weights of String.prototype.localeCompare (root collation):
\* punctuation before digits before letters at the first level, lower case
\* before upper case at the last level.
PrimaryWeight(c) ==
    IF c = "-" THEN 1
    ELSE IF c = "?" THEN 2
    ELSE IF IsDigit(c) THEN 4 + DigitValue(c)
    ELSE IF IsLetter(c) THEN 20 + LetterIndex(c)
    ELSE 3

CaseWeight(c) == IF IsUpper(c) THEN 1 ELSE 0

\* Lexicographic comparison of two sequences of weights: -1, 0 or 1
RECURSIVE LexCompare(_, _)
LexCompare(a, b) ==
    IF a = <<>> /\ b = <<>> THEN 0
    ELSE IF a = <<>> THEN -1
    ELSE IF b = <<>> THEN 1
    ELSE IF a[1] < b[1] THEN -1
    ELSE IF a[1] > b[1] THEN 1
    ELSE LexCompare(Tail(a), Tail(b))

localeCompare(a, b) ==
    LET p == LexCompare([i \in 1..Len(a) |-> PrimaryWeight(a[i])],
                        [i \in 1..Len(b) |-> PrimaryWeight(b[i])])
    IN  IF p # 0 THEN p
        ELSE LexCompare([i \in 1..Len(a) |-> CaseWeight(a[i])],
                        [i \in 1..Len(b) |-> CaseWeight(b[i])])

----------------------------------------------------------------------------
(* Type expressions and schema nodes *)

Dto == <<"D","t","o">>

EnumSuffix == <<"E","n","u","m">>

ArraySuffix == <<"[","]">>

TVoid == <<"v","o","i","d">>

TAny == <<"a","n","y">>

TString == <<"s","t","r","i","n","g">>

TNumber == <<"n","u","m","b","e","r">>

TBoolean == <<"b","o","o","l","e","a","n">>

TObject == <<"o","b","j","e","c","t">>

UnionSeparator == <<" ","|"," ">>

Last(s) == s[Len(s)]

\* the member of a set of one element
Only(S) == CHOOSE x \in S : TRUE

\* A SchemaObject.  type "" is an absent type, ref <<>> an absent $ref (a
\* pointer is the sequence of its '/'-separated segments), hasProps tells
\* whether the 'properties' key is there, items is <<>> or <<schema>>,
\* required is the list of required names (<<>> when the key is absent) and
\* enum is <<>> when the key is absent, << list >> when it is there.
SchemaNode(t, r, hp, ps, it) ==
    [type |-> t, ref |-> r, hasProps |-> hp, props |-> ps, items |-> it,
     required |-> <<>>, enum |-> <<>>]

Pointer(name) ==
    << <<"#">>, <<"c","o","m","p","o","n","e","n","t","s">>,
       <<"s","c","h","e","m","a","s">>, name >>

Prim(t) == SchemaNode(t, <<>>, FALSE, <<>>, <<>>)

Ref(name) == SchemaNode("", Pointer(name), FALSE, <<>>, <<>>)

Obj(ps) == SchemaNode("object", <<>>, TRUE, ps, <<>>)

Arr(item) == SchemaNode("array", <<>>, FALSE, <<>>, <<item>>)

Prop(n, sch) == [name |-> n, schema |-> sch]

\* the schema with a 'required' key
Requiring(sch, names) == [sch EXCEPT !.required = names]

\* the schema with an 'enum' key
Enum(sch, values) == [sch EXCEPT !.enum = <<values>>]

----------------------------------------------------------------------------
(* ControllerGenerator *)

\* The value parseInt gives for a key that does not start with a digit.  Every
\* comparison the code makes with it (>=, <, !==) has the outcome it has for NaN.
NaN == -1

RECURSIVE ParseDigits(_, _)
ParseDigits(str, acc) ==
    IF str = <<>> \/ ~IsDigit(str[1]) THEN acc
    ELSE ParseDigits(Tail(str), 10 * acc + DigitValue(str[1]))

parseInt(str) ==
    IF str = <<>> \/ ~IsDigit(str[1]) THEN NaN ELSE ParseDigits(str, 0)

\* An own property key that is a canonical array index is enumerated first,
\* in ascending numeric order; the other keys follow in insertion order.
IsIndexKey(key) ==
    /\ key # <<>>
    /\ \A i \in 1..Len(key) : IsDigit(key[i])
    /\ (Len(key) > 1 => key[1] # "0")

RECURSIVE AscendingKeys(_)
AscendingKeys(entries) ==
    IF entries = <<>> THEN <<>>
    ELSE LET m == CHOOSE i \in 1..Len(entries) :
                    \A j \in 1..Len(entries) :
                        parseInt(entries[i].key) <= parseInt(entries[j].key)
         IN  <<entries[m]>> \o
             AscendingKeys(SubSeq(entries, 1, m - 1) \o
                           SubSeq(entries, m + 1, Len(entries)))

ObjectEntries(obj) ==
    LET idx  == SelectSeq(obj, LAMBDA e : IsIndexKey(e.key))
        rest == SelectSeq(obj, LAMBDA e : ~IsIndexKey(e.key))
    IN  AscendingKeys(idx) \o rest

\* obj[key] on an object given as its entries; <<>> when the key is absent
RECURSIVE Lookup(_, _)
Lookup(obj, key) ==
    IF obj = <<>> THEN <<>>
    ELSE IF obj[1].key = key THEN <<obj[1].value>>
    ELSE Lookup(Tail(obj), key)

\* content?.['application/json']?.schema of a request body or response, which
\* is modelled by that schema alone: <<>> or <<schema>>
JsonSchema(holder) == holder.schema

RECURSIVE findOriginalSchemaRef(_, _, _, _)
findOriginalSchemaRef(ops, operationId, type, status) ==
    IF ops = <<>> THEN <<>>
    ELSE
      LET op   == ops[1]
          next == findOriginalSchemaRef(Tail(ops), operationId, type, status)
      IN
      IF op.operationId # operationId THEN next
      ELSE IF type = "requestBody" /\ op.requestBody # <<>>
      THEN LET sch == JsonSchema(op.requestBody[1])
           IN  IF sch # <<>> /\ sch[1].ref # <<>> THEN sch[1].ref ELSE next
      ELSE IF type = "response" /\ status # <<>>
              /\ Lookup(op.responses, status) # <<>>
      THEN LET sch == JsonSchema(Lookup(op.responses, status)[1])
           IN  IF sch = <<>> THEN next
               ELSE IF sch[1].ref # <<>> THEN sch[1].ref
               ELSE IF sch[1].type = "array" /\ sch[1].items # <<>>
                       /\ sch[1].items[1].ref # <<>>
               THEN sch[1].items[1].ref
               ELSE next
      ELSE next

getSchemaType(schema, originalRef) ==
    IF originalRef # <<>> THEN Last(originalRef) \o Dto
    ELSE IF schema.ref # <<>> THEN Last(schema.ref) \o Dto
    ELSE IF schema.type = "array"
    THEN IF schema.items # <<>> /\ schema.items[1].ref # <<>>
         THEN Last(schema.items[1].ref) \o Dto \o ArraySuffix
         ELSE TAny \o ArraySuffix
    ELSE TAny

\* the original reference looked up by processRequestBody and processResponses
OriginalRef(orig, operationId, type, status) ==
    IF orig # <<>> /\ operationId # <<>>
    THEN findOriginalSchemaRef(orig[1], operationId, type, status)
    ELSE <<>>

processRequestBody(requestBody, operationId, orig) ==
    IF requestBody = <<>> \/ JsonSchema(requestBody[1]) = <<>> THEN <<>>
    ELSE << [type |-> getSchemaType(JsonSchema(requestBody[1])[1],
                         OriginalRef(orig, operationId, "requestBody", <<>>)),
             decorator |-> "@Body()"] >>

processResponses(responses, operationId, orig) ==
    LET entries == ObjectEntries(responses)
    IN  [i \in 1..Len(entries) |->
           LET sch == JsonSchema(entries[i].value)
           IN  [status |-> parseInt(entries[i].key),
                type   |-> IF sch = <<>> THEN TVoid
                           ELSE getSchemaType(sch[1],
                                  OriginalRef(orig, operationId, "response",
                                              entries[i].key))]]

\* param.required === true || param.in === 'path'
IsRequired_FlagOnly(param) == param.required = "true"

IsRequired(param) == param.required = "true" \/ param.in = "path"

\* 'Headers' for a header, 'Param' for a path parameter, else capitalize(in)
DecoratorType(in) ==
    CASE in = "header" -> "Headers"
      [] in = "path"   -> "Param"
      [] in = "query"  -> "Query"
      [] in = "cookie" -> "Cookie"

processParameters(parameters) ==
    [i \in 1..Len(parameters) |->
       LET param     == parameters[i]
           paramName == IF param.in = "header" THEN toCamelCase(param.name)
                        ELSE param.name
       IN  [name          |-> IF IsRequired(param) THEN paramName
                              ELSE paramName \o <<"?">>,
            decorator     |-> [kind |-> DecoratorType(param.in),
                               arg  |-> param.name],
            required      |-> IsRequired(param),
            parameterType |-> param.in]]

getParameterTypePriority(param) ==
    CASE param.parameterType = "path"   -> 1
      [] param.parameterType = "body"   -> 2
      [] param.parameterType = "query"  -> 3
      [] param.parameterType = "header" -> 4
      [] OTHER                          -> 5

\* CompareParameters with the kind compared before the required-ness
CompareParameters_KindFirst(a, b) ==
    IF getParameterTypePriority(a) # getParameterTypePriority(b)
    THEN getParameterTypePriority(a) - getParameterTypePriority(b)
    ELSE IF a.required /\ ~b.required THEN -1
    ELSE IF ~a.required /\ b.required THEN 1
    ELSE localeCompare(a.name, b.name)

\* the comparison function given to Array.prototype.sort
CompareParameters(a, b) ==
    IF a.required /\ ~b.required THEN -1
    ELSE IF ~a.required /\ b.required THEN 1
    ELSE IF getParameterTypePriority(a) # getParameterTypePriority(b)
    THEN getParameterTypePriority(a) - getParameterTypePriority(b)
    ELSE localeCompare(a.name, b.name)

\* Array.prototype.sort is stable: an element goes after every element
\* already placed that does not compare greater than it.
RECURSIVE InsertSorted(_, _)
InsertSorted(done, x) ==
    IF done = <<>> THEN <<x>>
    ELSE IF CompareParameters(Last(done), x) <= 0 THEN Append(done, x)
    ELSE Append(InsertSorted(SubSeq(done, 1, Len(done) - 1), x), Last(done))

RECURSIVE SortFrom(_, _)
SortFrom(done, rest) ==
    IF rest = <<>> THEN done
    ELSE SortFrom(InsertSorted(done, rest[1]), Tail(rest))

sortParameters(parameters) == SortFrom(<<>>, parameters)

\* RemoveDuplicates that keeps every occurrence
RemoveDuplicates_KeepAll(seen, rest) == seen \o rest

\* responses.filter((type, index, array) => array.indexOf(type) === index)
RECURSIVE RemoveDuplicates(_, _)
RemoveDuplicates(seen, rest) ==
    IF rest = <<>> THEN seen
    ELSE IF rest[1] \in Range(seen) THEN RemoveDuplicates(seen, Tail(rest))
    ELSE RemoveDuplicates(Append(seen, rest[1]), Tail(rest))

\* Array.prototype.join
RECURSIVE Join(_, _)
Join(parts, sep) ==
    IF parts = <<>> THEN <<>>
    ELSE IF Len(parts) = 1 THEN parts[1]
    ELSE parts[1] \o sep \o Join(Tail(parts), sep)

IsSuccess(r) == r.status >= 200 /\ r.status < 300

\* ConsideredResponses that ignores the option
ConsideredResponses_All(m, includeErrors) == m.responses

\* the responses getReturnType considers
ConsideredResponses(m, includeErrors) ==
    IF includeErrors THEN m.responses ELSE SelectSeq(m.responses, IsSuccess)

\* getReturnType that answers 'void' whenever no named type remains
getReturnType_VoidWithoutNamed(m, includeErrors) ==
    LET responses     == ConsideredResponses(m, includeErrors)
        types         == [i \in 1..Len(responses) |-> responses[i].type]
        responseTypes == RemoveDuplicates(<<>>,
                            SelectSeq(types, LAMBDA t : t # TVoid /\ t # TAny))
    IN  IF Len(responseTypes) = 0 THEN TVoid
        ELSE Join(responseTypes, UnionSeparator)

getReturnType(m, includeErrors) ==
    LET responses     == ConsideredResponses(m, includeErrors)
        types         == [i \in 1..Len(responses) |-> responses[i].type]
        responseTypes == RemoveDuplicates(<<>>,
                            SelectSeq(types, LAMBDA t : t # TVoid /\ t # TAny))
    IN  IF Len(responses) = 0 THEN TVoid
        ELSE IF Len(responseTypes) = 0
        THEN IF \E i \in 1..Len(responses) : responses[i].type # TVoid
             THEN TAny ELSE TVoid
        ELSE IF Len(responseTypes) = 1 THEN responseTypes[1]
        ELSE Join(responseTypes, UnionSeparator)

\* A decorator of the method: the fields that its kind does not use hold
\* <<>>, FALSE or 0
MethodDecorator(kind, name, required, status, type) ==
    [kind |-> kind, name |-> name, required |-> required, status |-> status,
     type |-> type]

\* parameters.filter(p => p.decorator.includes('@Param')) and the like
DecoratedWith(parameters, kind) ==
    SelectSeq(parameters, LAMBDA p : p.decorator.kind = kind)

\* str.replace('?', ''): the first occurrence is removed
RECURSIVE RemoveFirst(_, _)
RemoveFirst(str, ch) ==
    IF str = <<>> THEN <<>>
    ELSE IF str[1] = ch THEN Tail(str)
    ELSE <<str[1]>> \o RemoveFirst(Tail(str), ch)

\* p.decorator.match(/@Headers\('([^']+)'\)/)?.[1] || cleanName
HeaderNameOf_Identifier(p) == RemoveFirst(p.name, "?")

HeaderNameOf(p) ==
    IF p.decorator.arg # <<>> /\ "'" \notin Range(p.decorator.arg)
    THEN p.decorator.arg
    ELSE RemoveFirst(p.name, "?")

ApiParams(ps) ==
    [i \in 1..Len(ps) |-> MethodDecorator("ApiParam", ps[i].name, FALSE, 0, <<>>)]

ApiQueries(ps) ==
    [i \in 1..Len(ps) |->
        MethodDecorator("ApiQuery", RemoveFirst(ps[i].name, "?"), ps[i].required,
                        0, <<>>)]

ApiHeaders(ps) ==
    [i \in 1..Len(ps) |->
        MethodDecorator("ApiHeader", HeaderNameOf(ps[i]), ps[i].required, 0, <<>>)]

\* lines 406-411: { status, type } unless the type is void or any, or the
\* status 204
ApiResponses(responses) ==
    [i \in 1..Len(responses) |->
        MethodDecorator("ApiResponse", <<>>, FALSE, responses[i].status,
            IF responses[i].type # TVoid /\ responses[i].type # TAny
               /\ responses[i].status # 204
            THEN responses[i].type ELSE <<>>)]

\* responses.find(r => r.status >= 200 && r.status < 300)
FirstSuccess(responses) == SelectSeq(responses, IsSuccess)

\* lines 413-416
HttpCode_Always(successes) ==
    IF successes # <<>>
    THEN <<MethodDecorator("HttpCode", <<>>, FALSE, successes[1].status, <<>>)>>
    ELSE <<>>

HttpCode(successes) ==
    IF successes # <<>> /\ successes[1].status # 200 /\ successes[1].status # 201
    THEN <<MethodDecorator("HttpCode", <<>>, FALSE, successes[1].status, <<>>)>>
    ELSE <<>>

\* buildDecorators; the operations of the model carry no summary
buildDecorators(parameters, responses) ==
    ApiParams(DecoratedWith(parameters, "Param"))
    \o ApiQueries(DecoratedWith(parameters, "Query"))
    \o ApiHeaders(DecoratedWith(parameters, "Headers"))
    \o ApiResponses(responses)
    \o HttpCode(FirstSuccess(responses))

\* path.split('/').filter(Boolean)
RECURSIVE SplitPath(_, _, _)
SplitPath(path, current, segments) ==
    IF path = <<>>
    THEN IF current = <<>> THEN segments ELSE Append(segments, current)
    ELSE IF path[1] = "/"
    THEN SplitPath(Tail(path), <<>>,
                   IF current = <<>> THEN segments ELSE Append(segments, current))
    ELSE SplitPath(Tail(path), Append(current, path[1]), segments)

Segments(path) == SplitPath(path, <<>>, <<>>)

\* lastSegment.replace(/[{}]/g, '')
StripBraces(str) == SelectSeq(str, LAMBDA c : c \notin {"{", "}"})

\* generateMethodName: << name >>, or <<>> when segments is empty, so that
\* lastSegment is undefined and lastSegment.replace throws a TypeError
generateMethodName(httpMethod, path) ==
    IF Segments(path) = <<>> THEN <<>>
    ELSE << httpMethod \o capitalize(StripBraces(Last(Segments(path)))) >>

\* operation.operationId || this.generateMethodName(httpMethod, path)
MethodNameOf(op) ==
    IF op.operationId # <<>> THEN <<op.operationId>>
    ELSE generateMethodName(op.httpMethod, op.path)

\* lines 198-205: the body as a parameter
BodyAsParam ==
    [name          |-> <<"b","o","d","y">>,
     decorator     |-> [kind |-> "Body", arg |-> <<>>],
     required      |-> TRUE,
     parameterType |-> "body"]

WithBody(allParameters, bodyParam) ==
    IF bodyParam # <<>> THEN Append(allParameters, BodyAsParam) ELSE allParameters

\* lines 218-229: the ControllerMethod
\* lines 214-215: path.startsWith('/') ? path : '/' + path
fullPath(path) ==
    IF path # <<>> /\ path[1] = "/" THEN path ELSE <<"/">> \o path

ControllerMethod(methodName, path, allParameters, bodyParam, responses) ==
    [methodName    |-> methodName,
     path          |-> fullPath(path),
     parameters    |-> allParameters,
     bodyParam     |-> bodyParam,
     responses     |-> responses,
     decorators    |-> buildDecorators(allParameters, responses),
     allParameters |-> sortParameters(WithBody(allParameters, bodyParam))]

NoMethod == <<>>

\* processOperation: << method >>, or no method when generateMethodName throws
processOperation(op, orig) ==
    IF MethodNameOf(op) = <<>> THEN NoMethod
    ELSE << ControllerMethod(MethodNameOf(op)[1], op.path,
                processParameters(op.parameters),
                processRequestBody(op.requestBody, op.operationId, orig),
                processResponses(op.responses, op.operationId, orig)) >>

\* config.generatorOptions?.includeErrorTypesInReturnType ?? false
ConstructorFlag(cfg) == cfg = "true"

\* an operation 'get /a' without operationId, parameters, body and responses
NoOperation ==
    [httpMethod |-> <<"g","e","t">>, path |-> <<"/","a">>,
     operationId |-> <<>>, parameters |-> <<>>, requestBody |-> <<>>,
     responses |-> <<>>]

\* the template context of a method, or the TypeError extractMethods ends with
Methods(built, includeErrors) ==
    /\ method' = built
    /\ returnType' = IF built = NoMethod THEN <<>>
                     ELSE <<getReturnType(built[1], includeErrors)>>
    /\ outcome' = IF built = NoMethod THEN "TypeError" ELSE outcome

\* generateController for one operation: extractMethods builds the method,
\* the template context gets its return type.
GenerateController ==
    /\ pc = "controller"
    /\ Methods(processOperation(operation, originalSpec),
               includeErrorTypesInReturnType)
    /\ pc' = "done"
    /\ UNCHANGED <<config, includeErrorTypesInReturnType, operation,
                   originalSpec, depMap, sorted, document, hasOriginal,
                   requested, nestedDtoSchemas, batch, enums, orchestratorVars,
                   previous, processVars>>

----------------------------------------------------------------------------
(* DtoGenerator: dependency ordering *)

\* A Map is the sequence of its entries [key, value] in insertion order, a
\* Set the sequence of its members in insertion order.
MapKeys(map) == [i \in 1..Len(map) |-> map[i].key]

MapHas(map, key) == \E i \in 1..Len(map) : map[i].key = key

MapGet(map, key) == map[CHOOSE i \in 1..Len(map) : map[i].key = key].value

\* Map.prototype.set: a new key goes last, an old key keeps its place
MapSet(map, key, value) ==
    IF MapHas(map, key)
    THEN [i \in 1..Len(map) |->
            IF map[i].key = key THEN [key |-> key, value |-> value] ELSE map[i]]
    ELSE Append(map, [key |-> key, value |-> value])

\* Set.prototype.add
SetAdd(set, x) == IF x \in Range(set) THEN set ELSE Append(set, x)

\* visit(node) and its loop over the dependencies of the node; st holds
\* result, visited and visiting
RECURSIVE visit(_, _, _)
RECURSIVE VisitEach(_, _, _)

\* visit that puts the node into the result before its dependencies
visit_NodeFirst(dependencies, node, st) ==
    IF node \in st.visiting THEN st
    ELSE IF node \in st.visited THEN st
    ELSE LET deps == IF MapHas(dependencies, node)
                     THEN MapGet(dependencies, node) ELSE <<>>
         IN  Only({ [result   |-> after.result,
                     visited  |-> after.visited \cup {node},
                     visiting |-> after.visiting \ {node}] :
                    after \in { VisitEach(dependencies, deps,
                                   [st EXCEPT !.visiting = @ \cup {node},
                                              !.result = Append(@, node)]) } })

visit(dependencies, node, st) ==
    IF node \in st.visiting THEN st
    ELSE IF node \in st.visited THEN st
    ELSE LET deps == IF MapHas(dependencies, node)
                     THEN MapGet(dependencies, node) ELSE <<>>
         IN  Only({ [result   |-> Append(after.result, node),
                     visited  |-> after.visited \cup {node},
                     visiting |-> after.visiting \ {node}] :
                    after \in { VisitEach(dependencies, deps,
                                   [st EXCEPT !.visiting = @ \cup {node}]) } })

VisitEach(dependencies, nodes, st) ==
    IF nodes = <<>> THEN st
    ELSE VisitEach(dependencies, Tail(nodes),
                   IF MapHas(dependencies, nodes[1])
                   THEN visit(dependencies, nodes[1], st) ELSE st)

RECURSIVE VisitKeys(_, _, _)
VisitKeys(dependencies, nodes, st) ==
    IF nodes = <<>> THEN st
    ELSE VisitKeys(dependencies, Tail(nodes), visit(dependencies, nodes[1], st))

\* topologicalSort with the visited set kept from the call before
topologicalSort_KeptVisited(dependencies) ==
    VisitKeys(dependencies, MapKeys(dependencies),
              [result |-> <<>>, visited |-> Range(sorted), visiting |-> {}]).result

topologicalSort(dependencies) ==
    VisitKeys(dependencies, MapKeys(dependencies),
              [result |-> <<>>, visited |-> {}, visiting |-> {}]).result

TopologicalSort ==
    /\ pc = "sort"
    /\ sorted' = topologicalSort(depMap)
    /\ pc' = "done"
    /\ UNCHANGED <<controllerVars, depMap, dtoVars, orchestratorVars, previous,
                   processVars>>

----------------------------------------------------------------------------
(* DtoGenerator: schema objects of a document *)

\* A schema object is known by the place it has in the written document: the
\* named schema it lies under and the steps from there.  Two handles denote
\* the same object exactly when they are equal.  In the dereferenced
\* document (resolved = TRUE) a $ref whose target exists is the target
\* object itself, so that the graph of a cyclic document is cyclic.
PropertyStep(name) == [kind |-> "properties", name |-> name]

ItemsStep == [kind |-> "items", name |-> <<>>]

Handle(resolved, root, path) ==
    [resolved |-> resolved, root |-> root, path |-> path]

PropertyOf(node, name) ==
    node.props[CHOOSE i \in 1..Len(node.props) : node.props[i].name = name].schema

RECURSIVE Descend(_, _)
Descend(node, path) ==
    IF path = <<>> THEN node
    ELSE IF path[1].kind = "items" THEN Descend(node.items[1], Tail(path))
    ELSE Descend(PropertyOf(node, path[1].name), Tail(path))

Written(doc, h) == Descend(MapGet(doc, h.root), h.path)

\* the object that stands at a place where schema object node is written
Resolve(doc, h, node) ==
    IF h.resolved /\ node.ref # <<>> /\ MapHas(doc, Last(node.ref))
    THEN Handle(TRUE, Last(node.ref), <<>>)
    ELSE h

\* the handle of the object found at a place of the document
Canonical(doc, h) == Resolve(doc, h, Written(doc, h))

\* the members of the schema object a handle denotes
SchemaAt(doc, h) == Written(doc, h)

\* Object.entries(schema.properties): the property names of the documents
\* are no array indices, so the entries come in insertion order
EntriesOf(doc, h, props) ==
    [i \in 1..Len(props) |->
        [name   |-> props[i].name,
         schema |-> Canonical(doc, [h EXCEPT !.path =
                        Append(@, PropertyStep(props[i].name))])]]

PropertyEntries(doc, h) == EntriesOf(doc, h, SchemaAt(doc, h).props)

\* schema.items
ItemsOf(doc, h) == Canonical(doc, [h EXCEPT !.path = Append(@, ItemsStep)])

\* spec.components.schemas[name] and spec._originalSpec.components.schemas[name]
ResolvedSchema(name) == Handle(TRUE, name, <<>>)

OriginalSchema(name) == Handle(FALSE, name, <<>>)

\* schema.type === 'object' && schema.properties && !schema.$ref
IsInlineObject(node) ==
    node.type = "object" /\ node.hasProps /\ node.ref = <<>>

\* schema.type === 'array' && schema.items
IsArrayOfItems(node) == node.type = "array" /\ node.items # <<>>

\* an array whose items are an object with properties and no $ref
HasInlineObjectItems(doc, h) ==
    /\ IsArrayOfItems(SchemaAt(doc, h))
    /\ IsInlineObject(SchemaAt(doc, ItemsOf(doc, h)))

----------------------------------------------------------------------------
(* DtoGenerator: structural match *)

\* UTF-16 code units, the order of Array.prototype.sort without a comparator
CodeUnit(c) ==
    IF c = "-" THEN 45
    ELSE IF IsDigit(c) THEN 48 + DigitValue(c)
    ELSE IF c = "?" THEN 63
    ELSE IF IsUpper(c) THEN 64 + LetterIndex(c)
    ELSE IF IsLower(c) THEN 96 + LetterIndex(c)
    ELSE 32

CompareCodeUnits(a, b) ==
    LexCompare([i \in 1..Len(a) |-> CodeUnit(a[i])],
               [i \in 1..Len(b) |-> CodeUnit(b[i])])

RECURSIVE InsertKey(_, _)
InsertKey(keys, k) ==
    IF keys = <<>> THEN <<k>>
    ELSE IF CompareCodeUnits(k, Last(keys)) < 0
         THEN Append(InsertKey(SubSeq(keys, 1, Len(keys) - 1), k), Last(keys))
         ELSE Append(keys, k)

RECURSIVE SortKeys(_)
SortKeys(keys) ==
    IF keys = <<>> THEN <<>>
    ELSE InsertKey(SortKeys(SubSeq(keys, 1, Len(keys) - 1)), Last(keys))

\* Object.keys(schema.properties)
ObjectKeys(node) == [i \in 1..Len(node.props) |-> node.props[i].name]

\* props1.length === props2.length && props1.every(...)
SameKeys(props1, props2) ==
    IF Len(props1) # Len(props2) THEN FALSE
    ELSE \A i \in 1..Len(props1) : props1[i] = props2[i]

\* schemasMatch that compares the key lists as they are written
schemasMatch_Unsorted(schema1, schema2) ==
    IF ~schema1.hasProps \/ ~schema2.hasProps THEN FALSE
    ELSE SameKeys(ObjectKeys(schema1), ObjectKeys(schema2))

schemasMatch(schema1, schema2) ==
    IF ~schema1.hasProps \/ ~schema2.hasProps THEN FALSE
    ELSE SameKeys(SortKeys(ObjectKeys(schema1)), SortKeys(ObjectKeys(schema2)))

\* the name of no DTO (null)
NoDto == <<>>

\* the first named schema of spec.components.schemas that matches
MatchingEntries(doc, schema) ==
    { i \in 1..Len(doc) :
        schemasMatch(schema, SchemaAt(doc, ResolvedSchema(doc[i].key))) }

FirstMatch(doc, hits) ==
    IF hits = {} THEN NoDto
    ELSE doc[CHOOSE i \in hits : \A j \in hits : i <= j].key \o Dto

findMatchingExistingDto(doc, h) ==
    FirstMatch(doc, MatchingEntries(doc, SchemaAt(doc, h)))

----------------------------------------------------------------------------
(* DtoGenerator: properties and models *)

Unknown == <<"U","n","k","n","o","w","n">>

ItemWord == <<"I","t","e","m">>

Optional == <<"?">>

EndsWith(str, suffix) ==
    /\ Len(str) >= Len(suffix)
    /\ SubSeq(str, Len(str) - Len(suffix) + 1, Len(str)) = suffix

\* dtoName.replace(/Dto$/, '')
StripDto(dtoName) ==
    IF EndsWith(dtoName, Dto) THEN SubSeq(dtoName, 1, Len(dtoName) - Len(Dto))
    ELSE dtoName

\* stripped || 'Unknown'
OrUnknown(stripped) == IF stripped = <<>> THEN Unknown ELSE stripped

\* `${parentTypeName}${fieldName}Dto`, with 'Item' before 'Dto' for items
InlineDtoName(currentDtoName, name, ofItems) ==
    OrUnknown(StripDto(currentDtoName)) \o capitalize(name)
        \o (IF ofItems THEN ItemWord ELSE <<>>) \o Dto

Typed(type, imports) == [type |-> type, imports |-> imports]

\* the type of a $ref to dtoName: 'any' for the DTO that is being compiled
ReferenceType(dtoName, imports, currentDtoName) ==
    IF currentDtoName # <<>> /\ dtoName = currentDtoName
    THEN Typed(TAny, imports)
    ELSE Typed(dtoName, SetAdd(imports, dtoName))

\* the array type over inline items, given the match for the items
MatchedItems(inner, matchingDtoName) ==
    IF matchingDtoName # NoDto
    THEN Typed(matchingDtoName \o ArraySuffix, SetAdd(inner.imports, matchingDtoName))
    ELSE Typed(TObject \o ArraySuffix, inner.imports)

\* the array type, given the type of the items
ArrayType(doc, items, inner) ==
    IF IsInlineObject(SchemaAt(doc, items))
    THEN MatchedItems(inner, findMatchingExistingDto(doc, items))
    ELSE Typed(inner.type \o ArraySuffix, inner.imports)

RECURSIVE TypeOf(_, _, _, _, _)

getTypeScriptType(doc, h, imports, currentDtoName) ==
    TypeOf(doc, h, SchemaAt(doc, h), imports, currentDtoName)

TypeOf(doc, h, schema, imports, currentDtoName) ==
    IF schema.ref # <<>>
    THEN ReferenceType(Last(schema.ref) \o Dto, imports, currentDtoName)
    ELSE CASE schema.type = "string" -> Typed(TString, imports)
           [] schema.type \in {"number", "integer"} -> Typed(TNumber, imports)
           [] schema.type = "boolean" -> Typed(TBoolean, imports)
           [] schema.type = "array" ->
                IF schema.items # <<>>
                THEN ArrayType(doc, ItemsOf(doc, h),
                         TypeOf(doc, ItemsOf(doc, h), SchemaAt(doc, ItemsOf(doc, h)),
                                imports, currentDtoName))
                ELSE Typed(TAny \o ArraySuffix, imports)
           [] schema.type = "object" -> Typed(TObject, imports)
           [] OTHER -> Typed(TAny, imports)

\* the inline type, given the match: the matching DTO or the synthesized name
NamedOrInline(matchingDtoName, inlineDtoName, imports) ==
    IF matchingDtoName # NoDto
    THEN Typed(matchingDtoName, SetAdd(imports, matchingDtoName))
    ELSE Typed(inlineDtoName, SetAdd(imports, inlineDtoName))

\* the type of a property whose schema is an inline object, or of array
\* items that are one
InlineType(doc, h, imports, currentDtoName, name, ofItems) ==
    NamedOrInline(findMatchingExistingDto(doc, h),
                  InlineDtoName(currentDtoName, name, ofItems), imports)

ArrayOf(item) == Typed(item.type \o ArraySuffix, item.imports)

\* processProperty, lines 171-185: nested objects with properties
AfterObject(doc, name, h, currentDtoName, first) ==
    IF IsInlineObject(SchemaAt(doc, h))
    THEN InlineType(doc, h, first.imports, currentDtoName, name, FALSE)
    ELSE first

\* processProperty, lines 238-255: the items, given their type
AfterItems(doc, name, items, currentDtoName, type, itemType) ==
    IF IsInlineObject(SchemaAt(doc, items))
    THEN ArrayOf(InlineType(doc, items, itemType.imports, currentDtoName, name, TRUE))
    ELSE Typed(type.type, itemType.imports)

\* processProperty, lines 232-262: arrays
AfterArray(doc, name, h, currentDtoName, type) ==
    IF IsArrayOfItems(SchemaAt(doc, h))
    THEN AfterItems(doc, name, ItemsOf(doc, h), currentDtoName, type,
             getTypeScriptType(doc, ItemsOf(doc, h), type.imports, currentDtoName))
    ELSE type

\* processProperty, lines 297-304: the item type of the ApiProperty options
AfterApiProperty(doc, h, currentDtoName, type) ==
    IF IsArrayOfItems(SchemaAt(doc, h))
    THEN Typed(type.type,
               getTypeScriptType(doc, ItemsOf(doc, h), type.imports,
                                 currentDtoName).imports)
    ELSE type

\* getEnumName: the name of the enum of a property
getEnumName(propertyName) == capitalize(propertyName) \o EnumSuffix

\* getApiPropertyType: the constructor the @ApiProperty options name
RECURSIVE getApiPropertyType(_)
getApiPropertyType(tsType) ==
    IF EndsWith(tsType, ArraySuffix)
    THEN getApiPropertyType(SubSeq(tsType, 1, Len(tsType) - 2))
    ELSE IF tsType = TString THEN capitalize(TString)
    ELSE IF tsType = TNumber THEN capitalize(TNumber)
    ELSE IF tsType = TBoolean THEN capitalize(TBoolean)
    ELSE IF tsType \in {TObject, TAny} THEN capitalize(TObject)
    ELSE tsType

\* A decorator: its name and the text between its parentheses
Decorator(name, arg) == [name |-> name, arg |-> arg]

\* An @ApiProperty option `key: value`
ApiOption(key, value) == [key |-> key, value |-> value]

Quoted(value) == <<"'">> \o value \o <<"'">>

RECURSIVE QuoteEach(_)
QuoteEach(values) ==
    IF values = <<>> THEN <<>>
    ELSE <<Quoted(values[1])>> \o QuoteEach(Tail(values))

\* processProperty, lines 193-215: strings
StringDecorators(name, schema) ==
    <<Decorator("IsString", <<>>)>>
    \o (IF schema.enum # <<>> THEN <<Decorator("IsEnum", getEnumName(name))>>
        ELSE <<>>)

\* processProperty, lines 257-261: items that are references or objects
ItemDecorators(items, itemType) ==
    IF items.ref # <<>> \/ (items.type = "object" /\ items.hasProps)
    THEN <<Decorator("ValidateNested", <<"e","a","c","h">>),
           Decorator("Type",
               IF (items.ref # <<>> /\ itemType # TAny) \/ EndsWith(itemType, Dto)
               THEN itemType ELSE capitalize(TObject))>>
    ELSE <<>>

\* processProperty, lines 236-255: the type of the items of an array
ItemTypeOf(doc, name, items, currentDtoName) ==
    IF IsInlineObject(SchemaAt(doc, items))
    THEN InlineType(doc, items, <<>>, currentDtoName, name, TRUE).type
    ELSE getTypeScriptType(doc, items, <<>>, currentDtoName).type

\* processProperty, lines 192-272: the decorators the type decides
TypeDecorators(doc, name, h, schema, currentDtoName, type) ==
    IF schema.type = "string" THEN StringDecorators(name, schema)
    ELSE IF schema.type = "integer" THEN <<Decorator("IsInt", <<>>)>>
    ELSE IF schema.type = "number" THEN <<Decorator("IsNumber", <<>>)>>
    ELSE IF schema.type = "boolean" THEN <<Decorator("IsBoolean", <<>>)>>
    ELSE IF schema.type = "array"
    THEN <<Decorator("IsArray", <<>>)>>
         \o (IF schema.items # <<>>
             THEN ItemDecorators(SchemaAt(doc, ItemsOf(doc, h)),
                      ItemTypeOf(doc, name, ItemsOf(doc, h), currentDtoName))
             ELSE <<>>)
    ELSE IF schema.ref # <<>>
    THEN <<Decorator("ValidateNested", <<>>),
           Decorator("Type", IF type # TAny THEN type ELSE capitalize(TObject))>>
    ELSE IF schema.type = "object" /\ schema.hasProps
    THEN <<Decorator("ValidateNested", <<>>),
           Decorator("Type", IF EndsWith(type, Dto) THEN type
                             ELSE capitalize(TObject))>>
    ELSE <<>>

\* processProperty, lines 275-304: the options of @ApiProperty
ApiPropertyOptions(doc, h, schema, isRequired, currentDtoName) ==
    (IF ~isRequired THEN <<ApiOption("required", <<"f","a","l","s","e">>)>>
     ELSE <<>>)
    \o (IF schema.enum # <<>>
        THEN <<ApiOption("enum", Join(QuoteEach(schema.enum[1]), <<",", " ">>))>>
        ELSE <<>>)
    \o (IF schema.type = "array"
        THEN <<ApiOption("isArray", <<"t","r","u","e">>)>>
             \o (IF schema.items # <<>>
                 THEN <<ApiOption("type", getApiPropertyType(
                            getTypeScriptType(doc, ItemsOf(doc, h), <<>>,
                                              currentDtoName).type))>>
                 ELSE <<>>)
        ELSE <<>>)

\* processProperty, lines 187-190: the marker of an optional property
OptionalDecorators_Always(isRequired) == <<Decorator("IsOptional", <<>>)>>

OptionalDecorators(isRequired) ==
    IF ~isRequired THEN <<Decorator("IsOptional", <<>>)>> ELSE <<>>

\* processProperty, lines 187-310: the decorators of a property
Decorators(doc, name, h, isRequired, currentDtoName, type) ==
    OptionalDecorators(isRequired)
    \o TypeDecorators(doc, name, h, SchemaAt(doc, h), currentDtoName, type)
    \o <<[name |-> "ApiProperty",
           arg  |-> ApiPropertyOptions(doc, h, SchemaAt(doc, h), isRequired,
                                       currentDtoName)]>>

\* processProperty, lines 312-318: the DtoProperty and the imports after it
Processed(doc, name, h, isRequired, currentDtoName, type) ==
    [property |-> [name |-> IF isRequired THEN name ELSE name \o Optional,
                   type |-> type.type,
                   required |-> isRequired,
                   decorators |-> Decorators(doc, name, h, isRequired,
                                             currentDtoName, type.type)],
     imports  |-> type.imports]

processProperty(doc, name, h, isRequired, imports, currentDtoName) ==
    Processed(doc, name, h, isRequired, currentDtoName,
        AfterApiProperty(doc, h, currentDtoName,
            AfterArray(doc, name, h, currentDtoName,
                AfterObject(doc, name, h, currentDtoName,
                    getTypeScriptType(doc, h, imports, currentDtoName)))))

RECURSIVE ProcessProperties(_, _, _, _, _, _)

PushProperty(doc, entries, required, properties, dtoName, p) ==
    ProcessProperties(doc, Tail(entries), required,
                      Append(properties, p.property), p.imports, dtoName)

\* required.includes(propName)
Includes(list, x) == \E i \in 1..Len(list) : list[i] = x

ProcessProperties(doc, entries, required, properties, imports, dtoName) ==
    IF entries = <<>> THEN [properties |-> properties, imports |-> imports]
    ELSE PushProperty(doc, entries, required, properties, dtoName,
             processProperty(doc, entries[1].name, entries[1].schema,
                             Includes(required, entries[1].name),
                             imports, dtoName))

DtoSchema(dtoName, done) ==
    [name |-> dtoName, properties |-> done.properties, imports |-> done.imports]

\* processSchema: the DtoSchema of a schema object
processSchema(doc, dtoName, h) ==
    DtoSchema(dtoName,
        IF SchemaAt(doc, h).hasProps
        THEN ProcessProperties(doc, PropertyEntries(doc, h),
                               SchemaAt(doc, h).required, <<>>, <<>>, dtoName)
        ELSE [properties |-> <<>>, imports |-> <<>>])

----------------------------------------------------------------------------
(* DtoGenerator: inline schemas *)

\* collectNestedDtoSchemas.  st holds the map and the flag overflow; stack
\* holds the schema objects of the calls that have not returned.  What a call
\* does with a property depends on the schema objects alone, so a call on an
\* object of the stack repeats the calls made since, without end, until the
\* call stack is exhausted.
RECURSIVE collectNestedDtoSchemas(_, _, _, _, _)
RECURSIVE CollectEntries(_, _, _, _, _)

\* nestedDtoSchemas.set(inlineDtoName, prop) and the recursive call
Register(doc, h, st, inlineDtoName, stack) ==
    collectNestedDtoSchemas(doc, h, [st EXCEPT !.map = MapSet(@, inlineDtoName, h)],
                            inlineDtoName, stack)

\* the registration of one inline schema unless a named schema matches
CollectInline(doc, h, st, parentDtoName, stack, name, ofItems) ==
    IF findMatchingExistingDto(doc, h) # NoDto THEN st
    ELSE Register(doc, h, st, InlineDtoName(parentDtoName, name, ofItems), stack)

\* lines 463-475: nested objects that should become DTOs
CollectObject(doc, name, prop, st, parentDtoName, stack) ==
    IF IsInlineObject(SchemaAt(doc, prop))
    THEN CollectInline(doc, prop, st, parentDtoName, stack, name, FALSE)
    ELSE st

\* lines 478-490: arrays with nested objects
CollectItems(doc, name, prop, st, parentDtoName, stack) ==
    IF ~st.overflow /\ HasInlineObjectItems(doc, prop)
    THEN CollectInline(doc, ItemsOf(doc, prop), st, parentDtoName, stack, name, TRUE)
    ELSE st

CollectEntries(doc, entries, st, parentDtoName, stack) ==
    IF entries = <<>> \/ st.overflow THEN st
    ELSE CollectEntries(doc, Tail(entries),
             CollectItems(doc, entries[1].name, entries[1].schema,
                 CollectObject(doc, entries[1].name, entries[1].schema, st,
                               parentDtoName, stack),
                 parentDtoName, stack),
             parentDtoName, stack)

collectNestedDtoSchemas(doc, h, st, parentDtoName, stack) ==
    IF h \in stack THEN [st EXCEPT !.overflow = TRUE]
    ELSE IF ~SchemaAt(doc, h).hasProps THEN st
    ELSE CollectEntries(doc, PropertyEntries(doc, h), st, parentDtoName,
                        stack \cup {h})

----------------------------------------------------------------------------
(* DtoGenerator: enums *)

\* value.toUpperCase().replace(/[^A-Z0-9]/g, '_')
EnumKey(value) ==
    [i \in 1..Len(value) |->
        IF IsLetter(value[i]) THEN ToUpper(value[i])
        ELSE IF IsDigit(value[i]) THEN value[i] ELSE "_"]

EnumValues(values) ==
    [i \in 1..Len(values) |-> [key |-> EnumKey(values[i]), value |-> values[i]]]

\* enumNames.has(name): every name pushed is the name of a descriptor pushed
HasEnum(allEnums, name) == \E i \in 1..Len(allEnums) : allEnums[i].name = name

\* xs.forEach(e => { if (!enumNames.has(e.name)) { ...; allEnums.push(e) } })
RECURSIVE MergeEnums_KeepAll(_, _)
MergeEnums_KeepAll(allEnums, more) == allEnums \o more

RECURSIVE MergeEnums(_, _)
MergeEnums(allEnums, more) ==
    IF more = <<>> THEN allEnums
    ELSE MergeEnums(IF HasEnum(allEnums, more[1].name) THEN allEnums
                    ELSE Append(allEnums, more[1]),
                    Tail(more))

\* prop.enum && prop.type === 'string': an array, empty or not, is truthy
IsEnumProperty(prop) == prop.enum # <<>> /\ prop.type = "string"

RECURSIVE collectEnumsForTemplate(_, _, _)
RECURSIVE EnumsOfEntries(_, _, _)

\* lines 587-602: the enum of the property itself
OwnEnum(name, prop, st) ==
    IF IsEnumProperty(prop)
    THEN [st EXCEPT !.enums = MergeEnums(@,
              << [name |-> getEnumName(name), values |-> EnumValues(prop.enum[1])] >>)]
    ELSE st

\* the enums of a recursive call, merged into those of the caller
MergedInto(st, run) ==
    [enums |-> MergeEnums(st.enums, run.enums), visited |-> run.visited]

\* lines 605-613: nested objects
NestedEnums(doc, prop, st) ==
    IF SchemaAt(doc, prop).type = "object" /\ SchemaAt(doc, prop).hasProps
       /\ prop \notin st.visited
    THEN MergedInto(st, collectEnumsForTemplate(doc, prop, st.visited))
    ELSE st

\* prop.items.type === 'object' && prop.items.properties && !visited.has(prop.items)
ItemsHaveEnums(doc, items, visited) ==
    SchemaAt(doc, items).type = "object" /\ SchemaAt(doc, items).hasProps
    /\ items \notin visited

\* lines 615-623: object-typed array items
ItemEnums(doc, prop, st) ==
    IF IsArrayOfItems(SchemaAt(doc, prop))
       /\ ItemsHaveEnums(doc, ItemsOf(doc, prop), st.visited)
    THEN MergedInto(st, collectEnumsForTemplate(doc, ItemsOf(doc, prop), st.visited))
    ELSE st

EnumsOfEntries(doc, entries, st) ==
    IF entries = <<>> THEN st
    ELSE EnumsOfEntries(doc, Tail(entries),
             ItemEnums(doc, entries[1].schema,
                 NestedEnums(doc, entries[1].schema,
                     OwnEnum(entries[1].name, SchemaAt(doc, entries[1].schema), st))))

\* collectEnumsForTemplate(schema, spec, visited): the descriptors and the
\* visited set after the call
collectEnumsForTemplate(doc, h, visited) ==
    IF h \in visited THEN [enums |-> <<>>, visited |-> visited]
    ELSE IF ~SchemaAt(doc, h).hasProps
    THEN [enums |-> <<>>, visited |-> visited \cup {h}]
    ELSE EnumsOfEntries(doc, PropertyEntries(doc, h),
                        [enums |-> <<>>, visited |-> visited \cup {h}])

\* the enums of one schema, added to those of the batch
AddEnums(st, doc, h) ==
    [st EXCEPT !.enums = MergeEnums(@, collectEnumsForTemplate(doc, h, {}).enums)]

----------------------------------------------------------------------------
(* DtoGenerator: generateAllDtos *)

\* the schema generateAllDtos compiles for a name: originalSchemas[name],
\* where originalSchemas is the original document if the spec carries one
\* and the schemas argument if not
SchemaToCompile(original, name) ==
    IF original THEN OriginalSchema(name) ELSE ResolvedSchema(name)

\* allDtos.set(name, dtoSchema); dependencies.set(name, new Set(imports))
AddDto(st, dtoSchema) ==
    [st EXCEPT !.allDtos = MapSet(@, dtoSchema.name, dtoSchema),
               !.dependencies = MapSet(@, dtoSchema.name, dtoSchema.imports)]

\* the state after the nested schemas of a named schema are collected
Collected(st, nested) ==
    [st EXCEPT !.nested = nested.map, !.overflow = nested.overflow]

\* first pass over Object.entries(schemas)
RECURSIVE FirstPass(_, _, _, _)
FirstPass(doc, original, names, st) ==
    IF names = <<>> \/ st.overflow THEN st
    ELSE FirstPass(doc, original, Tail(names),
             AddEnums(
                 Collected(
                     AddDto(st, processSchema(doc, names[1] \o Dto,
                                              SchemaToCompile(original, names[1]))),
                     collectNestedDtoSchemas(doc, SchemaToCompile(original, names[1]),
                         [map |-> st.nested, overflow |-> FALSE], names[1] \o Dto, {})),
                 doc, ResolvedSchema(names[1])))

\* second pass over nestedDtoSchemas.entries()
RECURSIVE SecondPass(_, _, _)
SecondPass(doc, entries, st) ==
    IF entries = <<>> THEN st
    ELSE IF MapHas(st.allDtos, entries[1].key) THEN SecondPass(doc, Tail(entries), st)
    ELSE SecondPass(doc, Tail(entries),
             AddEnums(
                 AddDto(st, processSchema(doc, entries[1].key, entries[1].value)),
                 doc, entries[1].value))

Models(allDtos, known) == [i \in 1..Len(known) |-> MapGet(allDtos, known[i])]

\* sorted.map(dtoName => allDtos.get(dtoName)).filter(Boolean)
OrderedDtos(allDtos, order) ==
    Models(allDtos, SelectSeq(order, LAMBDA dtoName : MapHas(allDtos, dtoName)))

\* lines 128-137: the batch in dependency order
InOrderOf(st, order) ==
    [outcome |-> "rendered", nested |-> st.nested, dependencies |-> st.dependencies,
     sorted |-> order, schemas |-> OrderedDtos(st.allDtos, order),
     enums |-> st.enums]

Ordered(st) == InOrderOf(st, topologicalSort(st.dependencies))

\* lines 110-137, unless the first pass has exhausted the call stack
AfterFirstPass(doc, first) ==
    IF first.overflow
    THEN [outcome |-> "RangeError", nested |-> first.nested,
          dependencies |-> first.dependencies, sorted |-> <<>>, schemas |-> <<>>,
          enums |-> <<>>]
    ELSE Ordered(SecondPass(doc, first.nested, first))

generateAllDtos(doc, original) ==
    AfterFirstPass(doc,
        FirstPass(doc, original, MapKeys(doc),
            [allDtos |-> <<>>, dependencies |-> <<>>, nested |-> <<>>,
             overflow |-> FALSE, enums |-> <<>>]))

----------------------------------------------------------------------------
(* DtoGenerator: generateDto *)

\* collectDto of collectAndOrderAllDtos and its loop over the imports
RECURSIVE collectDto(_, _, _, _)
RECURSIVE CollectDtos(_, _, _, _)

\* lines 515-522: the DTO is added and its imports are collected
CollectFrom(doc, original, st, dtoSchema) ==
    CollectDtos(doc, original, dtoSchema.imports, AddDto(st, dtoSchema))

collectDto(doc, original, dtoName, st) ==
    IF MapHas(st.allDtos, dtoName) \/ dtoName \in st.visited THEN st
    ELSE \* originalSchema && resolvedSchema
         IF original /\ MapHas(doc, StripDto(dtoName))
         THEN CollectFrom(doc, original, [st EXCEPT !.visited = @ \cup {dtoName}],
                  processSchema(doc, dtoName, OriginalSchema(StripDto(dtoName))))
         ELSE [st EXCEPT !.visited = @ \cup {dtoName}]

CollectDtos(doc, original, names, st) ==
    IF names = <<>> THEN st
    ELSE CollectDtos(doc, original, Tail(names),
                     collectDto(doc, original, names[1], st))

\* the loop over mainDto.imports: every call starts with a new visited set
RECURSIVE CollectImports(_, _, _, _)
CollectImports(doc, original, names, st) ==
    IF names = <<>> THEN st
    ELSE CollectImports(doc, original, Tail(names),
             collectDto(doc, original, names[1], [st EXCEPT !.visited = {}]))

\* lines 531-535: the batch in dependency order
Sorted(all, order) ==
    [dependencies |-> all.dependencies, sorted |-> order,
     schemas |-> OrderedDtos(all.allDtos, order)]

SortedDtos(all) == Sorted(all, topologicalSort(all.dependencies))

\* collectAndOrderAllDtos with the main DTO added after the collection
collectAndOrderAllDtos_MainAddedLast(doc, original, mainDto) ==
    SortedDtos(
        AddDto(CollectImports(doc, original, mainDto.imports,
                   [allDtos |-> <<>>, dependencies |-> <<>>, visited |-> {}]),
               mainDto))

collectAndOrderAllDtos(doc, original, mainDto) ==
    SortedDtos(
        CollectImports(doc, original, mainDto.imports,
            AddDto([allDtos |-> <<>>, dependencies |-> <<>>, visited |-> {}],
                   mainDto)))

\* lines 50-65: the enums of the referenced schemas, after those collected
RECURSIVE ReferencedEnums(_, _, _, _)
ReferencedEnums(doc, dtoName, allDtos, st) ==
    IF allDtos = <<>> THEN st.enums
    ELSE ReferencedEnums(doc, dtoName, Tail(allDtos),
             IF allDtos[1].name # dtoName /\ MapHas(doc, StripDto(allDtos[1].name))
             THEN AddEnums(st, doc, ResolvedSchema(StripDto(allDtos[1].name)))
             ELSE st)

\* lines 37-70: the template context, the enums of the main schema first
WithEnums(doc, dtoName, run) ==
    [dependencies |-> run.dependencies, sorted |-> run.sorted,
     schemas |-> run.schemas,
     enums |-> ReferencedEnums(doc, dtoName, run.schemas,
                   AddEnums([enums |-> <<>>], doc, ResolvedSchema(StripDto(dtoName))))]

\* generateDto(dtoName, schema, spec) with schema = spec.components.schemas
\* [name]: findOriginalSchema(dtoName, originalSpec) || schema
generateDto(doc, original, dtoName) ==
    WithEnums(doc, dtoName,
        collectAndOrderAllDtos(doc, original,
            processSchema(doc, dtoName,
                IF original /\ MapHas(doc, StripDto(dtoName))
                THEN OriginalSchema(StripDto(dtoName))
                ELSE ResolvedSchema(StripDto(dtoName)))))

----------------------------------------------------------------------------
(* DtoGenerator: the two entry points *)

\* the template context of generateAllDtos, or the error it ends with
HandOverAll(run) ==
    /\ nestedDtoSchemas' = run.nested
    /\ depMap' = run.dependencies
    /\ sorted' = run.sorted
    /\ batch' = run.schemas
    /\ enums' = run.enums
    /\ outcome' = run.outcome

\* the template context of generateDto
HandOver(dtoName, run) ==
    /\ requested' = dtoName
    /\ depMap' = run.dependencies
    /\ sorted' = run.sorted
    /\ batch' = run.schemas
    /\ enums' = run.enums

GenerateAllDtos ==
    /\ pc = "dto"
    /\ HandOverAll(generateAllDtos(document, hasOriginal))
    /\ requested' = <<>>
    /\ pc' = "done"
    /\ UNCHANGED <<controllerVars, document, hasOriginal, orchestratorVars,
                   previous, processVars>>

GenerateDto ==
    /\ pc = "dto"
    /\ \E i \in 1..Len(document) :
         HandOver(document[i].key \o Dto,
                  generateDto(document, hasOriginal, document[i].key \o Dto))
    /\ outcome' = "rendered"
    /\ pc' = "done"
    /\ UNCHANGED <<controllerVars, document, hasOriginal, nestedDtoSchemas,
                   orchestratorVars, previous, processVars>>

----------------------------------------------------------------------------
(* Inputs of the endpoint compiler *)

MaxParams == 3

MaxResponses == 3

ParamNames == { <<"a","-","b">>, <<"a","B">> }

ParamIn == {"path", "query", "header", "cookie"}

RequiredFlags == {"true", "false", "undefined"}

RawParameters ==
    [name : ParamNames, in : ParamIn, required : RequiredFlags]

\* An operation's parameter list holds no two parameters with the same name
\* and location.
IsParameterList(ps) ==
    \A i, j \in 1..Len(ps) :
        i # j => <<ps[i].name, ps[i].in>> # <<ps[j].name, ps[j].in>>

Item == <<"I","t","e","m">>

PartialItem == <<"P","a","r","t">>

RequestBodies == { <<>>, <<[schema |-> <<>>]>>, <<[schema |-> <<Ref(Item)>>]>> }

StatusKeys ==
    { <<"1","0","0">>, <<"2","0","0">>, <<"2","0","2">>, <<"2","0","6">>,
      <<"4","0","4">>, <<"d","e","f","a","u","l","t">> }

\* the order in which the document lists the status keys it has
DocumentKeyOrder ==
    << <<"4","0","4">>, <<"2","0","6">>, <<"d","e","f","a","u","l","t">>,
       <<"2","0","0">>, <<"1","0","0">>, <<"2","0","2">> >>

ResponseBodies ==
    { [schema |-> <<>>], [schema |-> <<Ref(Item)>>],
      [schema |-> <<Ref(PartialItem)>>],
      [schema |-> <<Obj(<<Prop(<<"x">>, Prim("string"))>>)>>],
      [schema |-> <<Arr(Ref(Item))>>] }

\* the responses object that lists the keys of f in document order
ResponseMap(f) ==
    LET keys == SelectSeq(DocumentKeyOrder, LAMBDA k : k \in DOMAIN f)
    IN  [i \in 1..Len(keys) |-> [key |-> keys[i], value |-> f[keys[i]]]]

\* no schema document is being compiled
NoDtoRun ==
    /\ document = <<>>
    /\ hasOriginal = FALSE
    /\ requested = <<>>
    /\ nestedDtoSchemas = <<>>
    /\ batch = <<>>
    /\ enums = <<>>
    /\ outcome = "none"

InitGenerators ==
    /\ pc = "controller"
    /\ config \in {"true", "false", "undefined"}
    /\ includeErrorTypesInReturnType = ConstructorFlag(config)
    /\ method = NoMethod
    /\ returnType = <<>>
    /\ depMap = <<>>
    /\ sorted = <<>>
    /\ NoDtoRun
    /\ NoPass

\* a document without its original
InitCommon ==
    /\ InitGenerators
    /\ originalSpec = <<>>

InitParams ==
    /\ InitCommon
    /\ config = "undefined"
    /\ \E k \in 0..MaxParams, body \in RequestBodies :
         \E ps \in [1..k -> RawParameters] :
            /\ IsParameterList(ps)
            /\ operation = [NoOperation EXCEPT !.parameters = ps,
                                               !.requestBody = body]

InitResponses ==
    /\ InitCommon
    /\ \E S \in SUBSET StatusKeys :
         /\ Cardinality(S) <= MaxResponses
         /\ \E f \in [S -> ResponseBodies] :
               operation = [NoOperation EXCEPT !.responses = ResponseMap(f)]

NextController == GenerateController

SpecParams == InitParams /\ [][NextController]_vars

SpecResponses == InitResponses /\ [][NextController]_vars

\* Header names: the name of the README and every name of up to
\* MaxHeaderLen characters over a capital, a small letter, a hyphen and a digit
MaxHeaderLen == 3

HeaderChars == {"X", "r", "-", "2"}

RequestIdHeader == <<"X","-","R","e","q","u","e","s","t","-","I","D">>

InitHeaders ==
    /\ InitCommon
    /\ config = "undefined"
    /\ \E n \in 1..MaxHeaderLen, required \in RequiredFlags, readme \in BOOLEAN :
         \E name \in [1..n -> HeaderChars] :
            operation = [NoOperation EXCEPT !.parameters =
                << [name |-> IF readme THEN RequestIdHeader ELSE name,
                    in |-> "header", required |-> required] >>]

SpecHeaders == InitHeaders /\ [][NextController]_vars

\* Paths: every path of up to MaxPathLen characters that starts with '/'
MaxPathLen == 4

PathChars == {"/", "a", "{", "}"}

HttpMethods == { <<"g","e","t">>, <<"d","e","l","e","t","e">> }

OperationIds == { <<>>, <<"o","p">> }

InitPaths ==
    /\ InitCommon
    /\ config = "undefined"
    /\ \E n \in 1..MaxPathLen, httpMethod \in HttpMethods, id \in OperationIds :
         \E path \in [1..n -> PathChars] :
            /\ path[1] = "/"
            /\ operation = [NoOperation EXCEPT !.httpMethod = httpMethod,
                                               !.path = path,
                                               !.operationId = id]

SpecPaths == InitPaths /\ [][NextController]_vars

\* Status codes: responses with and without a JSON schema under up to
\* MaxStatusCodes of the keys, listed in the order of StatusOrder
MaxStatusCodes == 3

StatusOrder ==
    << <<"4","0","4">>, <<"2","0","4">>, <<"d","e","f","a","u","l","t">>,
       <<"2","0","1">>, <<"2","0","0">>, <<"2","0","2">> >>

InitStatus ==
    /\ InitCommon
    /\ \E S \in SUBSET Range(StatusOrder) :
         /\ Cardinality(S) <= MaxStatusCodes
         /\ \E f \in [S -> {[schema |-> <<>>], [schema |-> <<Ref(Item)>>]}] :
               operation = [NoOperation EXCEPT !.responses =
                   [i \in 1..Len(SelectSeq(StatusOrder, LAMBDA k : k \in S)) |->
                       [key   |-> SelectSeq(StatusOrder, LAMBDA k : k \in S)[i],
                        value |-> f[SelectSeq(StatusOrder, LAMBDA k : k \in S)[i]]]]]

SpecStatus == InitStatus /\ [][NextController]_vars

\* Documents with their original: two operations, 'get /a' with or without
\* operationId and 'get /b' with one, in either order.  The operation that is
\* compiled is the dereferenced form of one of them; a document without its
\* original is compiled as it is written.

\* the copy that dereferencing puts where a $ref to a named schema stands
InlinedCopy(name) == Obj(<<Prop(name, Prim("string"))>>)

RECURSIVE Dereferenced(_)
Dereferenced(schema) ==
    IF schema.ref # <<>> THEN InlinedCopy(Last(schema.ref))
    ELSE IF schema.items # <<>>
    THEN [schema EXCEPT !.items = <<Dereferenced(schema.items[1])>>]
    ELSE schema

DereferencedHolder(holder) ==
    IF holder.schema = <<>> THEN holder
    ELSE [schema |-> <<Dereferenced(holder.schema[1])>>]

DereferencedOperation(op) ==
    [op EXCEPT
        !.requestBody = IF @ = <<>> THEN <<>> ELSE <<DereferencedHolder(@[1])>>,
        !.responses = [i \in 1..Len(@) |->
                          [key |-> @[i].key, value |-> DereferencedHolder(@[i].value)]]]

WrittenSchemas ==
    { <<>>, <<Ref(Item)>>, <<Ref(PartialItem)>>, <<Arr(Ref(Item))>>,
      <<Obj(<<Prop(<<"x">>, Prim("string"))>>)>> }

Created == <<"2","0","0">>

NotFound == <<"4","0","4">>

\* the operation 'get /a'
FirstOperations ==
    { [NoOperation EXCEPT
          !.operationId = id,
          !.requestBody = IF body = <<>> THEN <<>> ELSE <<[schema |-> body]>>,
          !.responses = << [key |-> NotFound, value |-> [schema |-> f[2]]],
                           [key |-> Created, value |-> [schema |-> f[1]]] >>] :
        id \in OperationIds, body \in WrittenSchemas,
        f \in [1..2 -> WrittenSchemas] }

\* the operation 'get /b'
SecondOperations ==
    { [NoOperation EXCEPT
          !.path = <<"/","b">>,
          !.operationId = <<"o","q">>,
          !.requestBody = IF body = <<>> THEN <<>> ELSE <<[schema |-> body]>>,
          !.responses = << [key |-> Created, value |-> [schema |-> ok]] >>] :
        body \in { <<>>, <<Ref(PartialItem)>> },
        ok \in { <<Ref(PartialItem)>>, <<Arr(Ref(PartialItem))>>, <<Ref(Item)>> } }

InitOriginal ==
    /\ InitGenerators
    /\ config = "undefined"
    /\ \E a \in FirstOperations, b \in SecondOperations :
         \E ops \in {<<a, b>>, <<b, a>>}, k \in 1..2, original \in BOOLEAN :
            /\ originalSpec = IF original THEN <<ops>> ELSE <<>>
            /\ operation = IF original THEN DereferencedOperation(ops[k])
                           ELSE ops[k]

SpecOriginal == InitOriginal /\ [][NextController]_vars

----------------------------------------------------------------------------
(* Inputs of the dependency orderer *)

MaxDeps == 2

\* the models in registration order; names are interchangeable, so one
\* registration order stands for all
ModelOrder == << <<"A">>, <<"B">>, <<"C">> >>

ModelNames == Range(ModelOrder)

\* a name that models depend on but that is not registered
Unregistered == <<"M">>

Injective(seq) == \A i, j \in 1..Len(seq) : i # j => seq[i] # seq[j]

IsDependencySet(d) == Injective(d) /\ Len(d) <= MaxDeps

\* the map that registers the first Len(f) models with the sets f
DependencyMap(f) ==
    [i \in 1..Len(f) |-> [key |-> ModelOrder[i], value |-> f[i]]]

InitOrderer ==
    /\ pc = "sort"
    /\ config = "undefined"
    /\ includeErrorTypesInReturnType = ConstructorFlag(config)
    /\ operation = NoOperation
    /\ originalSpec = <<>>
    /\ method = NoMethod
    /\ returnType = <<>>
    /\ \E n \in 0..Len(ModelOrder) :
         \E f \in [1..n -> UNION {[1..k -> ModelNames \cup {Unregistered}] :
                                      k \in 0..MaxDeps}] :
            /\ \A i \in 1..n : IsDependencySet(f[i])
            /\ depMap = DependencyMap(f)
    /\ sorted = <<>>
    /\ NoDtoRun
    /\ NoPass

NextOrderer == TopologicalSort

SpecOrderer == InitOrderer /\ [][NextOrderer]_vars

----------------------------------------------------------------------------
(* Inputs of the schema compiler *)

SchemaA == <<"A">>

SchemaAB == <<"A","B">>

\* a schema name the documents do not define
MissingSchema == <<"M">>

FieldB == <<"b">>

FieldC == <<"c">>

FieldNames == {FieldB, FieldC}

Text == Prim("string")

Leaves == {Text, Ref(SchemaA), Ref(SchemaAB), Ref(MissingSchema)}

\* inline objects of one property
SmallObjects ==
    { Obj(<<Prop(p, s)>>) : p \in FieldNames, s \in {Text, Ref(SchemaAB)} }

InlineObjects ==
    SmallObjects \cup
    { Obj(<<Prop(FieldB, Text), Prop(FieldC, Text)>>),
      Obj(<<Prop(FieldC, Text), Prop(FieldB, Text)>>),
      Obj(<<Prop(FieldB, Obj(<<Prop(FieldC, Text)>>))>>),
      Obj(<<Prop(FieldC, Obj(<<Prop(FieldB, Text)>>))>>),
      Obj(<<>>) }

PropertySchemas ==
    Leaves \cup InlineObjects \cup { Arr(s) : s \in Leaves \cup SmallObjects }

\* the schemas under components.schemas: objects of one or two properties,
\* arrays of inline objects, and a schema without properties
NamedSchemas ==
    { Obj(<<Prop(p, s)>>) : p \in FieldNames, s \in PropertySchemas } \cup
    { Obj(<<Prop(FieldB, s), Prop(FieldC, Text)>>) : s \in PropertySchemas } \cup
    { Obj(<<Prop(FieldC, Text), Prop(FieldB, Text)>>) } \cup
    { Arr(s) : s \in SmallObjects } \cup
    { Text }

\* the names of a document in the order the document lists them
NameOrders ==
    { <<SchemaA>>, <<SchemaAB>>, <<SchemaA, SchemaAB>>, <<SchemaAB, SchemaA>> }

InitDto ==
    /\ pc = "dto"
    /\ config = "undefined"
    /\ includeErrorTypesInReturnType = ConstructorFlag(config)
    /\ operation = NoOperation
    /\ originalSpec = <<>>
    /\ method = NoMethod
    /\ returnType = <<>>
    /\ depMap = <<>>
    /\ sorted = <<>>
    /\ \E order \in NameOrders :
         \E f \in [1..Len(order) -> NamedSchemas] :
            document = [i \in 1..Len(order) |-> [key |-> order[i], value |-> f[i]]]
    /\ hasOriginal \in BOOLEAN
    /\ requested = <<>>
    /\ nestedDtoSchemas = <<>>
    /\ batch = <<>>
    /\ enums = <<>>
    /\ outcome = "none"
    /\ NoPass

NextDto == GenerateAllDtos \/ GenerateDto

SpecDto == InitDto /\ [][NextDto]_vars

\* Documents with required lists and enums: schema A is an object of the
\* properties b and c, schema AB one of a few schemas that refer to A or
\* share its property names
ValueOn == <<"o","n">>

ValueOff == <<"o","f","f">>

EnumLeaves ==
    { Text,
      Enum(Text, <<>>),
      Enum(Text, <<ValueOn>>),
      Enum(Text, <<ValueOn, ValueOff>>),
      Enum(Prim("integer"), <<ValueOn>>) }

EnumProperties ==
    EnumLeaves \cup
    { Obj(<<Prop(FieldB, Enum(Text, <<ValueOff>>))>>),
      Obj(<<Prop(FieldB, Enum(Text, <<>>))>>),
      Arr(Obj(<<Prop(FieldC, Enum(Text, <<ValueOn>>))>>)),
      Arr(Enum(Text, <<ValueOn>>)),
      Ref(SchemaAB) }

RequiredLists == {<<>>, <<FieldB>>, <<FieldC>>, <<FieldB, FieldC>>}

EnumSchemasA ==
    { Requiring(Obj(<<Prop(FieldB, f[1]), Prop(FieldC, f[2])>>), r) :
        f \in [1..2 -> EnumProperties], r \in RequiredLists }

EnumSchemasAB ==
    { Obj(<<Prop(FieldB, Enum(Text, <<ValueOff>>))>>),
      Requiring(Obj(<<Prop(FieldC, Enum(Text, <<ValueOn, ValueOff>>)),
                      Prop(FieldB, Ref(SchemaA))>>), <<FieldB>>),
      Requiring(Obj(<<Prop(FieldB, Obj(<<Prop(FieldC, Enum(Text, <<ValueOff>>))>>))>>),
                <<FieldB>>),
      Text }

InitEnums ==
    /\ pc = "dto"
    /\ config = "undefined"
    /\ includeErrorTypesInReturnType = ConstructorFlag(config)
    /\ operation = NoOperation
    /\ originalSpec = <<>>
    /\ method = NoMethod
    /\ returnType = <<>>
    /\ depMap = <<>>
    /\ sorted = <<>>
    /\ \E a \in EnumSchemasA, ab \in EnumSchemasAB :
          document = << [key |-> SchemaA, value |-> a],
                        [key |-> SchemaAB, value |-> ab] >>
    /\ hasOriginal \in BOOLEAN
    /\ requested = <<>>
    /\ nestedDtoSchemas = <<>>
    /\ batch = <<>>
    /\ enums = <<>>
    /\ outcome = "none"
    /\ NoPass

SpecEnums == InitEnums /\ [][NextDto]_vars

----------------------------------------------------------------------------
(* GeneratorOrchestrator: the pass for one spec file *)

\* The output of one step: the generator has returned the rendered text or
\* has thrown, and FileWriter.writeFile writes the file or throws.  An error
\* ends generateFromSpec; nothing is removed.
Output(kind, generated, next) ==
    /\ renderedTemplates' =
          IF generated THEN renderedTemplates \cup {kind} ELSE renderedTemplates
    /\ writtenFiles' =
          IF generated /\ pass.writeFault # kind
          THEN writtenFiles \cup {kind} ELSE writtenFiles
    /\ pass' = [pass EXCEPT !.step =
                   IF generated /\ pass.writeFault # kind THEN next ELSE "failed"]

\* a step that the configuration or the spec file switches off
Skip(next) ==
    /\ pass' = [pass EXCEPT !.step = next]
    /\ UNCHANGED <<renderedTemplates, writtenFiles>>

\* specParser.parseSpec(specPath), lines 58-59
PassParseSpec ==
    /\ pc = "pass"
    /\ pass.step = "parse"
    /\ pass' = [pass EXCEPT !.step = IF pass.fault = "parse" THEN "failed"
                                     ELSE "dtos"]
    /\ UNCHANGED <<pc, controllerVars, depMap, sorted, dtoVars,
                   renderedTemplates, writtenFiles, previous, processVars>>

\* lines 63-65 and generateDtos
PassGenerateDtos ==
    /\ pc = "pass"
    /\ pass.step = "dtos"
    /\ IF pass.generateDtos /\ pass.hasSchemas
       THEN /\ HandOverAll(generateAllDtos(document, hasOriginal))
            /\ Output("dto", outcome' = "rendered", "controller")
       ELSE /\ Skip("controller")
            /\ UNCHANGED <<nestedDtoSchemas, depMap, sorted, batch, enums, outcome>>
    /\ UNCHANGED <<pc, controllerVars, document, hasOriginal, requested,
                   previous, processVars>>

\* lines 67-69 and generateController
PassGenerateController ==
    /\ pc = "pass"
    /\ pass.step = "controller"
    /\ IF pass.generateControllers /\ pass.hasPaths
       THEN /\ Methods(processOperation(operation, originalSpec),
                       includeErrorTypesInReturnType)
            /\ Output("controller", method' # NoMethod, "service")
       ELSE /\ Skip("service")
            /\ UNCHANGED <<method, returnType, outcome>>
    /\ UNCHANGED <<pc, config, includeErrorTypesInReturnType, operation,
                   originalSpec, depMap, sorted, document, hasOriginal,
                   requested, nestedDtoSchemas, batch, enums, previous,
                   processVars>>

\* lines 71-73 and generateService
PassGenerateService ==
    /\ pc = "pass"
    /\ pass.step = "service"
    /\ IF pass.generateServices /\ pass.hasPaths
       THEN Output("service", pass.fault # "service", "done")
       ELSE Skip("done")
    /\ UNCHANGED <<pc, controllerVars, depMap, sorted, dtoVars, previous,
                   processVars>>

\* Spec files: with or without components.schemas, with or without paths;
\* the schemas are a tree or hold a cycle, the path of the one operation is
\* '/a' or '/'.  At most one of the steps that are not in the model (parser,
\* service generator, file system) fails.
CyclicSchemas ==
    << [key |-> SchemaA, value |-> Obj(<<Prop(FieldC, Ref(SchemaAB))>>)],
       [key |-> SchemaAB, value |-> Arr(Obj(<<Prop(FieldB, Ref(SchemaAB))>>))] >>

TreeSchemas ==
    << [key |-> SchemaA, value |-> Obj(<<Prop(FieldC, Ref(SchemaAB))>>)],
       [key |-> SchemaAB, value |-> Obj(<<Prop(FieldB, Text)>>)] >>

RootPath == <<"/">>

Faults ==
    { [fault |-> f, writeFault |-> "none"] : f \in {"none", "parse", "service"} }
    \cup
    { [fault |-> "none", writeFault |-> w] : w \in {"dto", "controller", "service"} }

InitPass ==
    /\ pc = "pass"
    /\ config = "undefined"
    /\ includeErrorTypesInReturnType = ConstructorFlag(config)
    /\ originalSpec = <<>>
    /\ method = NoMethod
    /\ returnType = <<>>
    /\ depMap = <<>>
    /\ sorted = <<>>
    /\ requested = <<>>
    /\ nestedDtoSchemas = <<>>
    /\ batch = <<>>
    /\ enums = <<>>
    /\ outcome = "none"
    /\ hasOriginal = FALSE
    /\ document \in {<<>>, TreeSchemas, CyclicSchemas}
    /\ \E path \in {NoOperation.path, RootPath} :
          operation = [NoOperation EXCEPT !.path = path]
    /\ \E flags \in [{"dtos", "controllers", "services"} -> BOOLEAN],
          hasPaths \in BOOLEAN, faults \in Faults :
          pass = [step |-> "parse",
                  generateDtos |-> flags["dtos"],
                  generateControllers |-> flags["controllers"],
                  generateServices |-> flags["services"],
                  hasSchemas |-> document # <<>>,
                  hasPaths |-> hasPaths,
                  fault |-> faults.fault,
                  writeFault |-> faults.writeFault]
    /\ renderedTemplates = {}
    /\ writtenFiles = {}
    /\ NoProcess

\* Documents with one enum of two different literal values: short strings
\* of letters in both cases, hyphens and underscores
MaxValueLen == 2

ValueChars == {"a", "A", "-", "_"}

Literals == UNION { [1..n -> ValueChars] : n \in 1..MaxValueLen }

InitEnumKeys ==
    /\ pc = "dto"
    /\ config = "undefined"
    /\ includeErrorTypesInReturnType = ConstructorFlag(config)
    /\ operation = NoOperation
    /\ originalSpec = <<>>
    /\ method = NoMethod
    /\ returnType = <<>>
    /\ depMap = <<>>
    /\ sorted = <<>>
    /\ \E first \in Literals :
          \E second \in Literals \ {first} :
             document =
                << [key |-> SchemaA,
                    value |-> Obj(<<Prop(FieldB, Enum(Text, <<first, second>>))>>)] >>
    /\ hasOriginal = FALSE
    /\ requested = <<>>
    /\ nestedDtoSchemas = <<>>
    /\ batch = <<>>
    /\ enums = <<>>
    /\ outcome = "none"
    /\ NoPass

SpecEnumKeys == InitEnumKeys /\ [][NextDto]_vars

\* Documents with names that have no schema: schema AB has two properties,
\* each a string, a $ref to A, a $ref (or an array of $refs) to a schema the
\* document does not define, or an inline object with the property of A
DependentSchemas ==
    {Text, Ref(SchemaA), Ref(MissingSchema), Arr(Ref(MissingSchema)),
     Obj(<<Prop(FieldB, Text)>>)}

InitDangling ==
    /\ pc = "dto"
    /\ config = "undefined"
    /\ includeErrorTypesInReturnType = ConstructorFlag(config)
    /\ operation = NoOperation
    /\ originalSpec = <<>>
    /\ method = NoMethod
    /\ returnType = <<>>
    /\ depMap = <<>>
    /\ sorted = <<>>
    /\ \E a \in {Text, Ref(MissingSchema), Ref(SchemaAB)},
          b \in DependentSchemas, c \in DependentSchemas, order \in NameOrders :
          /\ Len(order) = 2
          /\ document =
                [i \in 1..2 |->
                    [key |-> order[i],
                     value |-> IF order[i] = SchemaA THEN Obj(<<Prop(FieldB, a)>>)
                               ELSE Obj(<<Prop(FieldB, b), Prop(FieldC, c)>>)]]
    /\ hasOriginal \in BOOLEAN
    /\ requested = <<>>
    /\ nestedDtoSchemas = <<>>
    /\ batch = <<>>
    /\ enums = <<>>
    /\ outcome = "none"
    /\ NoPass

SpecDangling == InitDangling /\ [][NextDto]_vars

----------------------------------------------------------------------------
(* A second pass with the same generator instances *)

\* the entry point of the pass that has ended: generateController leaves a
\* method or the TypeError, the entry points of DtoGenerator leave neither
LastEntry ==
    IF method # NoMethod \/ outcome = "TypeError" THEN "controller" ELSE "dto"

\* what a pass hands to the templates
HandedOver ==
    [entry |-> LastEntry, requested |-> requested, batch |-> batch,
     enums |-> enums, method |-> method, returnType |-> returnType]

\* SpecWatcher keeps one GeneratorOrchestrator, and with it one DtoGenerator
\* and one ControllerGenerator, for every pass: the entry point is called
\* again on the same document
Repeat ==
    /\ pc = "done"
    /\ previous = <<>>
    /\ previous' = <<HandedOver>>
    /\ pc' = LastEntry
    /\ UNCHANGED <<controllerVars, depMap, sorted, dtoVars, orchestratorVars,
                   processVars>>

InitTwice == InitEnums \/ InitOriginal

NextTwice == GenerateAllDtos \/ GenerateDto \/ GenerateController \/ Repeat

SpecTwice == InitTwice /\ [][NextTwice]_vars

NextPass ==
    \/ PassParseSpec
    \/ PassGenerateDtos
    \/ PassGenerateController
    \/ PassGenerateService

SpecPass == InitPass /\ [][NextPass]_vars

----------------------------------------------------------------------------
(* The command line, SpecWatcher and GeneratorOrchestrator.generate *)

\* A call of generate() is the record of its position: the step it awaits
\* ("find", "parse", "write", or settled as "returned" or "threw"), the spec
\* file and the output it is at, the spec files it has taken up, whether its
\* caller has resumed, and how many failures had been caught when it
\* started.  The
\* awaits of one step (template loading, ensureDir, writeFile) are taken
\* together.
MaxSpecs == 2

MaxEvents == 2

\* DEFAULT_CONFIG: generateDtos and generateControllers, no services
Kinds == <<"dto", "controller">>

Settled(call) == call.step \in {"returned", "threw"}

Threw == {i \in 1..Len(runs) : runs[i].step = "threw"}

\* the failed calls whose caller has caught the error
Caught == {i \in Threw : runs[i].resumed}

\* line 32-35: generate() runs up to its first await
NewCall(failed) ==
    [step |-> "find", at |-> 0, kind |-> 0, processed |-> <<>>,
     resumed |-> FALSE, after |-> failed]

\* lines 44-48: the loop takes the next spec file, or generate returns
NextSpec(call) ==
    IF call.at = Len(specPaths) THEN [call EXCEPT !.step = "returned"]
    ELSE [call EXCEPT !.step = "parse", !.at = @ + 1, !.kind = 0,
                      !.processed = Append(@, specPaths[call.at + 1].name)]

\* lines 49-52 with the error logged and the loop going on
Rethrown_NextSpec(call) == NextSpec(call)

\* lines 49-52: the error of generateFromSpec is logged and thrown again
Rethrown(call) == [call EXCEPT !.step = "threw"]

\* lines 35-46: findSpecs has answered
Found(call) ==
    IF specPaths = <<>> THEN [call EXCEPT !.step = "returned"]
    ELSE NextSpec(call)

\* generateFromSpec: the generator of the next output is called and, unless
\* it throws, its file is handed to writeFile
Generating(call, k) ==
    IF k > Len(Kinds) THEN NextSpec(call)
    ELSE IF specPaths[call.at].fault = Kinds[k] THEN Rethrown(call)
    ELSE [call EXCEPT !.step = "write", !.kind = k]

\* generateFromSpec, lines 58-63: parseSpec has answered
Parsed(call) ==
    IF specPaths[call.at].fault = "parse" THEN Rethrown(call)
    ELSE Generating(call, 1)

\* the output file a call is writing
Target(call) == <<specPaths[call.at].name, Kinds[call.kind]>>

\* the action handler of the command line, lines 283-307 of part_007
CliAction ==
    /\ pc = "cli"
    /\ pc' = IF watch THEN "watching" ELSE "generating"
    /\ runs' = IF watch THEN runs ELSE <<NewCall(0)>>
    /\ UNCHANGED <<controllerVars, depMap, sorted, dtoVars, orchestratorVars,
                   previous, watch, specPaths, events, outputFiles, exitCode>>

\* SpecWatcher.handleChange called with a file event: it logs the event and
\* calls generate(), whatever the event is and whatever runs
handleChange(event, calls) == Append(calls, NewCall(Cardinality(Caught)))

\* chokidar emits add, change or unlink (lines 24-27 of part_009)
FileEvent ==
    /\ pc = "watching"
    /\ events < MaxEvents
    /\ events' = events + 1
    /\ \E event \in {"added", "changed", "deleted"} :
          runs' = handleChange(event, runs)
    /\ UNCHANGED <<pc, controllerVars, depMap, sorted, dtoVars, orchestratorVars,
                   previous, watch, specPaths, outputFiles, exitCode>>

Running == pc \in {"watching", "generating"}

Step(i, call) ==
    /\ runs' = [runs EXCEPT ![i] = call]
    /\ UNCHANGED <<pc, controllerVars, depMap, sorted, dtoVars, orchestratorVars,
                   previous, watch, specPaths, events, exitCode>>

FindSpecs ==
    /\ Running
    /\ \E i \in 1..Len(runs) :
          /\ runs[i].step = "find"
          /\ Step(i, Found(runs[i]))
    /\ UNCHANGED outputFiles

ParseSpec ==
    /\ Running
    /\ \E i \in 1..Len(runs) :
          /\ runs[i].step = "parse"
          /\ Step(i, Parsed(runs[i]))
    /\ UNCHANGED outputFiles

\* fileWriter.writeFile has answered: the file is on disk
WriteFile ==
    /\ Running
    /\ \E i \in 1..Len(runs) :
          /\ runs[i].step = "write"
          /\ outputFiles' = outputFiles \cup {Target(runs[i])}
          /\ Step(i, Generating(runs[i], runs[i].kind + 1))

\* the catch of the action handler with exit code 0
CliExitCode_Zero(call) == "0"

\* lines 308-311 of part_007: process.exit(1) in the catch of the action
\* handler; when the handler returns the process ends with 0
CliExitCode(call) == IF call.step = "threw" THEN "1" ELSE "0"

\* handleChange without its try/catch: the rejection ends the process
ExitAfterHandleChange_Uncaught(call) ==
    IF call.step = "threw" THEN "1" ELSE "none"

\* lines 33-37 of part_009: the error is logged, the process goes on
ExitAfterHandleChange(call) == "none"

\* the caller that awaits generate() resumes
Resume ==
    /\ Running
    /\ \E i \in 1..Len(runs) :
          /\ Settled(runs[i])
          /\ ~runs[i].resumed
          /\ runs' = [runs EXCEPT ![i].resumed = TRUE]
          /\ exitCode' = IF watch THEN ExitAfterHandleChange(runs[i])
                         ELSE CliExitCode(runs[i])
    /\ pc' = IF exitCode' = "none" THEN pc ELSE "exited"
    /\ UNCHANGED <<controllerVars, depMap, sorted, dtoVars, orchestratorVars,
                   previous, watch, specPaths, events, outputFiles>>

\* the SIGINT handler of watch mode, lines 296-300 of part_007
Sigint ==
    /\ pc = "watching"
    /\ pc' = "exited"
    /\ exitCode' = "0"
    /\ UNCHANGED <<controllerVars, depMap, sorted, dtoVars, orchestratorVars,
                   previous, watch, specPaths, events, runs, outputFiles>>

\* the spec files of specsDir: each is well formed, or its parsing, its
\* models or its controller fail
SpecNames == <<"a", "b", "c">>

SpecFaults == {"none", "parse", "controller"}

InitCli ==
    /\ pc = "cli"
    /\ config = "undefined"
    /\ includeErrorTypesInReturnType = ConstructorFlag(config)
    /\ operation = NoOperation
    /\ originalSpec = <<>>
    /\ method = NoMethod
    /\ returnType = <<>>
    /\ depMap = <<>>
    /\ sorted = <<>>
    /\ NoDtoRun
    /\ pass = [step |-> "none"]
    /\ renderedTemplates = {}
    /\ writtenFiles = {}
    /\ previous = <<>>
    /\ watch \in BOOLEAN
    /\ \E n \in 0..MaxSpecs : \E f \in [1..n -> SpecFaults] :
          specPaths = [i \in 1..n |-> [name |-> SpecNames[i], fault |-> f[i]]]
    /\ events = 0
    /\ runs = <<>>
    /\ outputFiles = {}
    /\ exitCode = "none"

NextCli ==
    \/ CliAction
    \/ FileEvent
    \/ FindSpecs
    \/ ParseSpec
    \/ WriteFile
    \/ Resume
    \/ Sigint

SpecCli == InitCli /\ [][NextCli]_vars

----------------------------------------------------------------------------
(* Properties of the endpoint compiler *)

Count(seq, x) == Cardinality({i \in 1..Len(seq) : seq[i] = x})

IsPermutation(a, b) ==
    /\ Len(a) = Len(b)
    /\ \A i \in 1..Len(a) : Count(a, a[i]) = Count(b, a[i])

\* path < body < query < header < other
KindRank(kind) ==
    LET order == <<"path", "body", "query", "header">>
    IN  IF \E i \in 1..4 : order[i] = kind
        THEN CHOOSE i \in 1..4 : order[i] = kind ELSE 5

\* the operation's processed parameters plus the synthetic body parameter
CombinedParameters(m) ==
    m.parameters \o
    [i \in 1..Len(m.bodyParam) |->
        [name |-> <<"b","o","d","y">>,
         decorator |-> [kind |-> "Body", arg |-> <<>>],
         required |-> TRUE, parameterType |-> "body"]]

InOrder(a, b) ==
    /\ a.required \/ ~b.required
    /\ a.required = b.required =>
         /\ KindRank(a.parameterType) <= KindRank(b.parameterType)
         /\ KindRank(a.parameterType) = KindRank(b.parameterType) =>
              localeCompare(a.name, b.name) <= 0

\* C1: the sorted parameter list is a permutation of the operation's
\* parameters plus the body parameter (required, kind 'body') in which every
\* entry placed before another is required or the other optional, then has
\* no greater kind priority, then has no later name.
C1_ParametersOrdered ==
    pc = "done" =>
      LET m   == method[1]
          out == m.allParameters
      IN  /\ IsPermutation(out, CombinedParameters(m))
          /\ \A i, j \in 1..Len(out) : i < j => InOrder(out[i], out[j])
          /\ (operation.requestBody # <<>>
                /\ operation.requestBody[1].schema # <<>>) =>
               \E i \in 1..Len(out) :
                  out[i].parameterType = "body" /\ out[i].required

C1_Witness ==
    /\ pc = "done"
    /\ Len(method[1].allParameters) = 4
    /\ method[1].allParameters # CombinedParameters(method[1])
    /\ \E i, j \in 1..4 :
          /\ method[1].allParameters[i].required
          /\ ~method[1].allParameters[j].required
    /\ \E i \in 1..4 : method[1].allParameters[i].parameterType = "body"
    /\ \E i, j \in 1..4 :
          /\ i # j
          /\ method[1].allParameters[i].parameterType = "header"
          /\ method[1].allParameters[j].parameterType = "header"
          /\ method[1].allParameters[i].required
                = method[1].allParameters[j].required

\* 'A | B | C' as <<A, B, C>>
RECURSIVE SplitUnion(_, _)
SplitUnion(str, cur) ==
    IF str = <<>> THEN <<cur>>
    ELSE IF Len(str) >= 3 /\ SubSeq(str, 1, 3) = UnionSeparator
    THEN <<cur>> \o SplitUnion(SubSeq(str, 4, Len(str)), <<>>)
    ELSE SplitUnion(Tail(str), Append(cur, str[1]))

Members == SplitUnion(returnType[1], <<>>)

\* a response is considered when it is a 2xx response or error types are
\* included
Considered(r) == includeErrorTypesInReturnType \/ (r.status >= 200 /\ r.status < 300)

NamedTypes(rs) ==
    {rs[i].type : i \in {k \in 1..Len(rs) : Considered(rs[k])}} \ {TVoid, TAny}

\* the least status code among the considered responses of type t; a type
\* found on the 'default' response only comes after every status code
FirstStatus(rs, t) ==
    LET codes == {rs[i].status : i \in {k \in 1..Len(rs) :
                     Considered(rs[k]) /\ rs[k].type = t /\ rs[k].status # NaN}}
    IN  IF codes = {} THEN 1000
        ELSE CHOOSE c \in codes : \A d \in codes : c <= d

\* C2: the return type lists the distinct types other than 'void' and 'any'
\* of the considered responses, each once, in the order of the status code
\* each first appears on; a single type is returned as it is.
C2_UnionOfDistinctTypes ==
    (pc = "done" /\ NamedTypes(method[1].responses) # {}) =>
      LET rs == method[1].responses
      IN  /\ Range(Members) = NamedTypes(rs)
          /\ Len(Members) = Cardinality(NamedTypes(rs))
          /\ \A i, j \in 1..Len(Members) :
                i < j => FirstStatus(rs, Members[i]) < FirstStatus(rs, Members[j])
          /\ Cardinality(NamedTypes(rs)) = 1 =>
                /\ returnType[1] \in NamedTypes(rs)
                /\ "|" \notin Range(returnType[1])

C2_Witness ==
    /\ pc = "done"
    /\ ~includeErrorTypesInReturnType
    /\ \E i, j, k \in 1..Len(operation.responses) :
          /\ operation.responses[i] =
               [key |-> <<"2","0","0">>, value |-> [schema |-> <<Ref(Item)>>]]
          /\ operation.responses[j] =
               [key |-> <<"2","0","2">>, value |-> [schema |-> <<Ref(Item)>>]]
          /\ operation.responses[k] =
               [key |-> <<"2","0","6">>,
                value |-> [schema |-> <<Ref(PartialItem)>>]]
    /\ returnType[1] = Item \o Dto \o UnionSeparator \o PartialItem \o Dto

\* the entries of the operation's responses that are considered, by key
ConsideredEntries ==
    {i \in 1..Len(operation.responses) :
        \/ includeErrorTypesInReturnType
        \/ /\ parseInt(operation.responses[i].key) >= 200
           /\ parseInt(operation.responses[i].key) < 300}

ErrorOnlyTypes(rs) ==
    {rs[i].type : i \in {k \in 1..Len(rs) : ~IsSuccess(rs[k])}}
      \ {rs[i].type : i \in {k \in 1..Len(rs) : IsSuccess(rs[k])}}

SuccessTypes(rs) == {rs[i].type : i \in {k \in 1..Len(rs) : IsSuccess(rs[k])}}

\* C4 as stated: without the option (false or absent) no type found on
\* non-2xx responses only is in the return type; with it the return type is
\* built from all responses, the success types first.
C4_Original ==
    pc = "done" =>
      LET rs == method[1].responses
      IN  /\ config # "true" => Range(Members) \cap ErrorOnlyTypes(rs) = {}
          /\ (config = "true" /\ NamedTypes(rs) # {}) =>
               /\ Range(Members) = NamedTypes(rs)
               /\ \A i, j \in 1..Len(Members) :
                     (i < j /\ Members[j] \in SuccessTypes(rs))
                        => Members[i] \in SuccessTypes(rs)

\* C4 amended: without the option no type other than 'void' found on
\* non-2xx responses only is in the return type; with it the return type is
\* built from all responses in ascending status order, so that a success
\* type follows only success types and types of responses below 200.
C4_ErrorTypesByOption ==
    pc = "done" =>
      LET rs == method[1].responses
      IN  /\ config # "true" =>
               Range(Members) \cap (ErrorOnlyTypes(rs) \ {TVoid}) = {}
          /\ (config = "true" /\ NamedTypes(rs) # {}) =>
               /\ Range(Members) = NamedTypes(rs)
               /\ \A i, j \in 1..Len(Members) :
                     i < j => FirstStatus(rs, Members[i]) < FirstStatus(rs, Members[j])
               /\ \A i, j \in 1..Len(Members) :
                     (i < j /\ Members[j] \in SuccessTypes(rs))
                        => \/ Members[i] \in SuccessTypes(rs)
                           \/ FirstStatus(rs, Members[i]) < 200

C4_Witness ==
    /\ pc = "done"
    /\ config = "true"
    /\ Len(Members) = 3
    /\ Members[1] \in SuccessTypes(method[1].responses)
    /\ Members[3] \in ErrorOnlyTypes(method[1].responses)

C4_WitnessDefault ==
    /\ pc = "done"
    /\ config = "undefined"
    /\ ErrorOnlyTypes(method[1].responses) \ {TVoid, TAny} # {}
    /\ Len(Members) = 2

----------------------------------------------------------------------------
(* Properties of the dependency orderer *)

DependsOn(x, y) ==
    MapHas(depMap, x) /\ MapHas(depMap, y) /\ y \in Range(MapGet(depMap, x))

Successors(S) == {y \in Range(MapKeys(depMap)) : \E x \in S : DependsOn(x, y)}

RECURSIVE Closure(_)
Closure(S) ==
    IF Successors(S) \subseteq S THEN S ELSE Closure(S \cup Successors(S))

\* y is reached from x along one or more dependency edges between
\* registered models
Reaches(x, y) == y \in Closure(Successors({x}))

Position(seq, x) == CHOOSE i \in 1..Len(seq) : seq[i] = x

\* C5: the order holds every registered model once and no other name, and a
\* dependency that lies on no cycle comes before its dependent.
C5_DependencyOrder ==
    pc = "done" =>
      /\ Len(sorted) = Len(depMap)
      /\ Range(sorted) = Range(MapKeys(depMap))
      /\ \A x, y \in Range(MapKeys(depMap)) :
            (DependsOn(x, y) /\ ~Reaches(y, x))
               => Position(sorted, y) < Position(sorted, x)

C5_Witness ==
    /\ pc = "done"
    /\ Len(depMap) = 3
    /\ sorted # MapKeys(depMap)
    /\ \E x, y \in Range(MapKeys(depMap)) : DependsOn(x, y) /\ ~Reaches(y, x)
    /\ \E x, y \in Range(MapKeys(depMap)) :
          x # y /\ DependsOn(x, y) /\ Reaches(y, x)
    /\ \E x \in Range(MapKeys(depMap)) :
          Unregistered \in Range(MapGet(depMap, x))

----------------------------------------------------------------------------
(* Properties of the schema compiler *)

NamedDtos == { document[i].key \o Dto : i \in 1..Len(document) }

BatchNames == { batch[i].name : i \in 1..Len(batch) }

BatchModel(dtoName) == batch[CHOOSE i \in 1..Len(batch) : batch[i].name = dtoName]

Rendered == pc = "done" /\ outcome = "rendered"

RenderedAll == Rendered /\ requested = <<>>

\* a type expression without its array suffixes
RECURSIVE ElementType(_)
ElementType(type) ==
    IF EndsWith(type, ArraySuffix)
    THEN ElementType(SubSeq(type, 1, Len(type) - Len(ArraySuffix)))
    ELSE type

BuiltInTypes == {TAny, TString, TNumber, TBoolean, TObject}

\* the properties of named schemas that are a $ref to a named schema, or an
\* array of such references
RefProperties ==
    { e \in [from : { document[i].key : i \in 1..Len(document) },
             index : 1..2,
             to : { document[i].key : i \in 1..Len(document) }] :
        LET node == MapGet(document, e.from)
        IN  /\ node.hasProps
            /\ e.index <= Len(node.props)
            /\ LET s == node.props[e.index].schema
               IN  \/ s.ref = Pointer(e.to)
                   \/ s.type = "array" /\ s.items # <<>> /\ s.items[1].ref = Pointer(e.to) }

\* the type expression the batch gives to a property of a named schema
EmittedType(e) == BatchModel(e.from \o Dto).properties[e.index].type

Broken(e) == EmittedType(e) \in {TAny, TAny \o ArraySuffix}

\* names reached from a name over references that are not broken
RECURSIVE UnbrokenClosure(_)
UnbrokenClosure(S) ==
    LET next == S \cup { e.to : e \in { x \in RefProperties : x.from \in S /\ ~Broken(x) } }
    IN  IF next = S THEN S ELSE UnbrokenClosure(next)

OnUnbrokenCycle(name) ==
    \E e \in RefProperties :
        e.from = name /\ ~Broken(e) /\ name \in UnbrokenClosure({e.to})

\* C6: when generateAllDtos has compiled a document that carries its
\* original, every cycle of $ref properties among the named schemas, of
\* length 1 or longer, holds a property typed 'any' ('any[]' for array
\* items), and a model with a property that refers to its own schema does not
\* list its own name in its imports.
C6_CyclesBroken ==
    RenderedAll /\ hasOriginal =>
        /\ \A i \in 1..Len(document) : ~OnUnbrokenCycle(document[i].key)
        /\ \A e \in RefProperties :
              e.from = e.to =>
                  e.from \o Dto \notin Range(BatchModel(e.from \o Dto).imports)

\* C7: every call of generateDto and generateAllDtos returns: it ends by
\* handing a batch to the template, never by exhausting the call stack.
C7_Terminates == pc = "done" => outcome = "rendered"

\* the DTO names in the type expressions of a model
TypeNames(model) ==
    { ElementType(model.properties[i].type) : i \in 1..Len(model.properties) }
        \ BuiltInTypes

\* the properties of the schema a model was compiled from, when the model is
\* that of a named schema
WrittenProperties(model) ==
    LET name == StripDto(model.name)
    IN  IF MapHas(document, name) /\ MapGet(document, name).hasProps
        THEN MapGet(document, name).props ELSE <<>>

IsDangling(schema) ==
    schema.ref # <<>> /\ ~MapHas(document, Last(schema.ref))

\* C8: in a batch handed to the template, every DTO name in the type
\* expression of a property is the name of a model of the batch, and a
\* property that refers to a schema the document does not define is typed
\* 'any'.
C8_NoDanglingNames ==
    Rendered =>
        \A i \in 1..Len(batch) :
            /\ TypeNames(batch[i]) \subseteq BatchNames
            /\ batch[i].name \in NamedDtos /\ hasOriginal =>
                  \A j \in 1..Len(WrittenProperties(batch[i])) :
                      IsDangling(WrittenProperties(batch[i])[j].schema) =>
                          batch[i].properties[j].type = TAny

\* the set of the property names of a schema
KeySet(node) == { node.props[i].name : i \in 1..Len(node.props) }

\* the named schemas that have properties, with the same set of names
SameNamedSchemas(node) ==
    { document[i].key : i \in { k \in 1..Len(document) :
          /\ document[k].value.hasProps
          /\ KeySet(document[k].value) = KeySet(node) } }

\* the schema object a model of the batch was compiled from
SourceOf(model) ==
    IF model.name \in NamedDtos
    THEN SchemaToCompile(hasOriginal,
             document[CHOOSE i \in 1..Len(document) :
                          document[i].key \o Dto = model.name].key)
    ELSE MapGet(nestedDtoSchemas, model.name)

Registered(h) == \E i \in 1..Len(nestedDtoSchemas) : nestedDtoSchemas[i].value = h

\* an inline object that some named schema matches takes the name of such a
\* schema, imports it, and is not registered as an inline schema
Reused(model, h, type, suffix) ==
    /\ \E name \in SameNamedSchemas(SchemaAt(document, h)) :
          /\ type = name \o Dto \o suffix
          /\ name \o Dto \in Range(model.imports)
    /\ ~Registered(h)

HasInlineItems(h) == HasInlineObjectItems(document, h)

HasMatch(h) == SameNamedSchemas(SchemaAt(document, h)) # {}

\* C9: in every batch, a property that is an inline object with properties
\* and no $ref, and whose set of property names is that of some named schema,
\* has the type '<Name>Dto' of such a schema ('<Name>Dto[]' when the inline
\* object is the items of an array property); the name is among the imports
\* of the model and no inline schema is registered for the object.
C9_MatchingSchemaReused ==
    Rendered =>
        \A i \in 1..Len(batch) :
            LET entries == PropertyEntries(document, SourceOf(batch[i]))
            IN  \A j \in 1..Len(entries) :
                    LET h    == entries[j].schema
                        type == batch[i].properties[j].type
                    IN  /\ IsInlineObject(SchemaAt(document, h)) /\ HasMatch(h) =>
                              Reused(batch[i], h, type, <<>>)
                        /\ HasInlineItems(h) /\ HasMatch(ItemsOf(document, h)) =>
                              Reused(batch[i], ItemsOf(document, h), type, ArraySuffix)

\* generateAllDtos has reused a named schema for an inline object that lists
\* the property names in another order, and one for the items of an array
C9_Witness ==
    /\ RenderedAll
    /\ \E i \in 1..Len(batch) :
         \E h \in Range([j \in 1..Len(PropertyEntries(document, SourceOf(batch[i]))) |->
                            PropertyEntries(document, SourceOf(batch[i]))[j].schema]) :
            /\ IsInlineObject(SchemaAt(document, h))
            /\ \E name \in SameNamedSchemas(SchemaAt(document, h)) :
                  /\ ObjectKeys(MapGet(document, name)) # ObjectKeys(SchemaAt(document, h))
                  /\ name \o Dto \in TypeNames(batch[i])
    /\ \E i \in 1..Len(batch) :
         \E j \in 1..Len(batch[i].properties) :
            LET h == PropertyEntries(document, SourceOf(batch[i]))[j].schema
            IN  /\ HasInlineItems(h)
                /\ HasMatch(ItemsOf(document, h))
                /\ EndsWith(batch[i].properties[j].type, Dto \o ArraySuffix)

\* the inline schemas without a match below a schema object, each with the
\* name the naming rule gives it
RECURSIVE InlineSchemas(_, _)
InlineSchemas(h, parentDtoName) ==
    LET entries == PropertyEntries(document, h)
        Below(s, name, ofItems) ==
            IF HasMatch(s) THEN {}
            ELSE LET inlineDtoName == InlineDtoName(parentDtoName, name, ofItems)
                 IN  {[name |-> inlineDtoName, schema |-> s]}
                         \cup InlineSchemas(s, inlineDtoName)
    IN  UNION { (IF IsInlineObject(SchemaAt(document, entries[j].schema))
                 THEN Below(entries[j].schema, entries[j].name, FALSE) ELSE {})
                \cup
                (IF HasInlineItems(entries[j].schema)
                 THEN Below(ItemsOf(document, entries[j].schema), entries[j].name, TRUE)
                 ELSE {}) : j \in 1..Len(entries) }

AllInlineSchemas ==
    UNION { InlineSchemas(SchemaToCompile(hasOriginal, document[i].key),
                          document[i].key \o Dto) : i \in 1..Len(document) }

\* C10: when generateAllDtos has compiled a document, the name synthesized
\* for an inline schema without a match is the DTO name of no named schema
\* and the synthesized name of no other inline schema, and the batch holds
\* under that name the model compiled from that inline schema.
C10_CollisionFree ==
    RenderedAll =>
        \A x \in AllInlineSchemas :
            /\ x.name \notin NamedDtos
            /\ \A y \in AllInlineSchemas : y.name = x.name => y.schema = x.schema
            /\ x.name \in BatchNames
            /\ BatchModel(x.name) = processSchema(document, x.name, x.schema)

----------------------------------------------------------------------------
(* Properties of the property descriptors and the enums *)

HasDecorator(property, name) ==
    \E i \in 1..Len(property.decorators) : property.decorators[i].name = name

\* the options of the @ApiProperty decorator, which is the last one
OptionsOf(property) == property.decorators[Len(property.decorators)].arg

HasRequiredFalse(property) ==
    \E i \in 1..Len(OptionsOf(property)) :
        /\ OptionsOf(property)[i].key = "required"
        /\ OptionsOf(property)[i].value = <<"f","a","l","s","e">>

\* whether the schema a model was compiled from lists the name as required
ListedRequired(model, j) ==
    Includes(SchemaAt(document, SourceOf(model)).required,
             SchemaAt(document, SourceOf(model)).props[j].name)

CarriesOptionalMarkers(property) ==
    /\ EndsWith(property.name, Optional)
    /\ HasDecorator(property, "IsOptional")
    /\ HasRequiredFalse(property)

CarriesNoOptionalMarker(property) ==
    /\ ~EndsWith(property.name, Optional)
    /\ ~HasDecorator(property, "IsOptional")
    /\ ~HasRequiredFalse(property)

\* C11: in every batch handed to the template, a property whose name is not
\* in the required list of its schema carries all three optional markers
\* (name ending with '?', an '@IsOptional()' decorator, 'required: false'
\* among the @ApiProperty options), and a property whose name is in the list
\* carries none of them.
C11_OptionalMarkers ==
    Rendered =>
        \A i \in 1..Len(batch) : \A j \in 1..Len(batch[i].properties) :
            IF ListedRequired(batch[i], j)
            THEN /\ batch[i].properties[j].required
                 /\ CarriesNoOptionalMarker(batch[i].properties[j])
            ELSE /\ ~batch[i].properties[j].required
                 /\ CarriesOptionalMarkers(batch[i].properties[j])

\* a model with a required first property and an optional second one
C11_Witness ==
    /\ Rendered
    /\ \E i \in 1..Len(batch) :
          /\ Len(batch[i].properties) = 2
          /\ ListedRequired(batch[i], 1)
          /\ ~ListedRequired(batch[i], 2)
          /\ CarriesNoOptionalMarker(batch[i].properties[1])
          /\ CarriesOptionalMarkers(batch[i].properties[2])

\* the schemas whose enums a run collects: every named schema for
\* generateAllDtos, the schemas of the models of the batch for generateDto
EnumRoots ==
    IF requested = <<>>
    THEN { ResolvedSchema(document[i].key) : i \in 1..Len(document) }
    ELSE { ResolvedSchema(StripDto(batch[i].name)) : i \in 1..Len(batch) }

\* the object-typed properties and object-typed array items of a schema
ObjectChildren(h) ==
    LET entries == IF SchemaAt(document, h).hasProps
                   THEN PropertyEntries(document, h) ELSE <<>>
        IsObject(c) == SchemaAt(document, c).type = "object"
                       /\ SchemaAt(document, c).hasProps
    IN  { entries[i].schema : i \in { k \in 1..Len(entries) : IsObject(entries[k].schema) } }
        \cup
        { ItemsOf(document, entries[i].schema) :
            i \in { k \in 1..Len(entries) :
                      /\ IsArrayOfItems(SchemaAt(document, entries[k].schema))
                      /\ IsObject(ItemsOf(document, entries[k].schema)) } }

RECURSIVE ReachedFrom(_)
ReachedFrom(S) ==
    LET next == S \cup UNION { ObjectChildren(h) : h \in S }
    IN  IF next = S THEN S ELSE ReachedFrom(next)

\* the properties reached from the roots: name and schema node
ReachedProperties ==
    UNION { { [name |-> SchemaAt(document, h).props[i].name,
               schema |-> SchemaAt(document, PropertyEntries(document, h)[i].schema)] :
              i \in 1..Len(SchemaAt(document, h).props) } :
            h \in ReachedFrom(EnumRoots) }

EnumNamesEmitted == { enums[i].name : i \in 1..Len(enums) }

\* C12: the enum descriptors handed to the template by one run have pairwise
\* distinct names.
C12_DistinctEnumNames ==
    Rendered =>
        \A i \in 1..Len(enums) : \A j \in 1..Len(enums) :
            enums[i].name = enums[j].name => i = j

\* two properties named b with different literal sets, and one enum BEnum
C12_Witness ==
    /\ Rendered
    /\ \E p \in ReachedProperties : \E q \in ReachedProperties :
          /\ p.name = FieldB /\ q.name = FieldB
          /\ IsEnumProperty(p.schema) /\ IsEnumProperty(q.schema)
          /\ p.schema.enum # q.schema.enum
    /\ Cardinality({ i \in 1..Len(enums) : enums[i].name = getEnumName(FieldB) }) = 1

\* C13: the descriptors of a run are those of the reached properties with
\* type 'string' and a non-empty enum list, each named
\* capitalize(propertyName) + 'Enum'; a property with an empty enum list or
\* another type yields no descriptor.
C13_EnumsOfNonEmptyStringEnums ==
    Rendered =>
        /\ EnumNamesEmitted =
              { getEnumName(p.name) :
                  p \in { q \in ReachedProperties :
                            /\ q.schema.type = "string"
                            /\ q.schema.enum # <<>>
                            /\ q.schema.enum[1] # <<>> } }
        /\ \A i \in 1..Len(enums) : enums[i].values # <<>>

\* what holds in every run: the descriptors are those of the reached
\* properties with type 'string' and an enum key, whatever the list holds
EnumsOfStringEnums ==
    Rendered =>
        EnumNamesEmitted =
            { getEnumName(p.name) :
                p \in { q \in ReachedProperties : IsEnumProperty(q.schema) } }

----------------------------------------------------------------------------
(* Properties of the parameters, names and decorators of a method *)

Compiled == pc = "done" /\ method # NoMethod

\* C14: of the parameters processParameters returns, one with in = 'path' is
\* required and its identifier has no '?', whatever the required flag of
\* the document says; one in the query, a header (or a cookie) is required
\* exactly when the flag is true, and its identifier ends with '?' exactly
\* when it is not required.
C14_PathAlwaysRequired ==
    Compiled =>
        \A i \in 1..Len(operation.parameters) :
            IF operation.parameters[i].in = "path"
            THEN /\ method[1].parameters[i].required
                 /\ ~EndsWith(method[1].parameters[i].name, Optional)
            ELSE /\ method[1].parameters[i].required
                       <=> operation.parameters[i].required = "true"
                 /\ EndsWith(method[1].parameters[i].name, Optional)
                       <=> ~method[1].parameters[i].required

\* a path parameter the document flags as not required, next to a header
\* that is required and a query parameter without flag
C14_Witness ==
    /\ Compiled
    /\ \E i \in 1..Len(operation.parameters) :
          /\ operation.parameters[i].in = "path"
          /\ operation.parameters[i].required = "false"
          /\ method[1].parameters[i].required
          /\ method[1].parameters[i].name = operation.parameters[i].name
    /\ \E i \in 1..Len(operation.parameters) :
          /\ operation.parameters[i].in = "header"
          /\ operation.parameters[i].required = "true"
          /\ ~EndsWith(method[1].parameters[i].name, Optional)
    /\ \E i \in 1..Len(operation.parameters) :
          /\ operation.parameters[i].in = "query"
          /\ operation.parameters[i].required = "undefined"
          /\ EndsWith(method[1].parameters[i].name, Optional)

DecoratorsOf(kind) ==
    SelectSeq(method[1].decorators, LAMBDA d : d.kind = kind)

\* C15: the identifier of every header parameter holds no hyphen and does
\* not start with a capital letter, while its @Headers decorator and the
\* @ApiHeader decorator of the method name the header as the document does.
C15_HeaderIdentifierSafe ==
    Compiled =>
        \A i \in 1..Len(operation.parameters) :
            operation.parameters[i].in = "header" =>
                /\ "-" \notin Range(method[1].parameters[i].name)
                /\ ~IsUpper(method[1].parameters[i].name[1])
                /\ method[1].parameters[i].decorator
                      = [kind |-> "Headers", arg |-> operation.parameters[i].name]
                /\ \E k \in 1..Len(DecoratorsOf("ApiHeader")) :
                      DecoratorsOf("ApiHeader")[k].name = operation.parameters[i].name

\* what holds for every header name: both decorators keep the name of the
\* document, and 'X-Request-ID' becomes xRequestID
HeaderDecoratorsKeepName ==
    Compiled =>
        \A i \in 1..Len(operation.parameters) :
            operation.parameters[i].in = "header" =>
                /\ method[1].parameters[i].decorator.arg = operation.parameters[i].name
                /\ DecoratorsOf("ApiHeader")[1].name = operation.parameters[i].name
                /\ operation.parameters[i].name = RequestIdHeader =>
                      RemoveFirst(method[1].parameters[i].name, "?")
                          = <<"x","R","e","q","u","e","s","t","I","D">>

\* the name the claim gives to an operation whose path has a segment
DerivedName ==
    operation.httpMethod \o capitalize(StripBraces(Last(Segments(operation.path))))

\* C16: every operation gets a method name: its operationId when it has
\* one, else the HTTP method followed by the capitalized last path segment
\* without braces; this also holds for a path with no non-empty segment.
C16_MethodNameForEveryPath ==
    pc = "done" =>
        /\ method # NoMethod
        /\ IF operation.operationId # <<>>
           THEN method[1].methodName = operation.operationId
           ELSE Segments(operation.path) # <<>> =>
                    method[1].methodName = DerivedName

\* what holds for every path: the name is as claimed whenever there is an
\* operationId or a non-empty segment
MethodNameWhenSegment ==
    pc = "done" /\ (operation.operationId # <<>> \/ Segments(operation.path) # <<>>) =>
        /\ method # NoMethod
        /\ method[1].methodName =
              IF operation.operationId # <<>> THEN operation.operationId
              ELSE DerivedName

\* the status codes of the 2xx responses of the operation
SuccessCodes ==
    { parseInt(operation.responses[i].key) : i \in 1..Len(operation.responses) }
        \cap 200..299

\* C17: a method carries at most one @HttpCode decorator; with a single 2xx
\* response of status s it carries one exactly when s is neither 200 nor
\* 201, and that one pins s; without a 2xx response it carries none.
C17_HttpCodePin ==
    Compiled =>
        /\ Len(DecoratorsOf("HttpCode")) <= 1
        /\ SuccessCodes = {} => DecoratorsOf("HttpCode") = <<>>
        /\ \A code \in SuccessCodes :
              SuccessCodes = {code} =>
                  /\ DecoratorsOf("HttpCode") # <<>> <=> code \notin {200, 201}
                  /\ DecoratorsOf("HttpCode") # <<>> =>
                        DecoratorsOf("HttpCode")[1].status = code

\* 204 is the only 2xx response, next to an error response, and is pinned
C17_Witness ==
    /\ Compiled
    /\ SuccessCodes = {204}
    /\ Len(operation.responses) = 2
    /\ Len(DecoratorsOf("HttpCode")) = 1
    /\ DecoratorsOf("HttpCode")[1].status = 204

\* 201 is the only 2xx response and nothing is pinned
C17_WitnessCreated ==
    /\ Compiled
    /\ SuccessCodes = {201}
    /\ DecoratorsOf("HttpCode") = <<>>

----------------------------------------------------------------------------
(* Properties of the types recovered from the original document *)

\* the operation as the document is written: the operation of the original
\* document with the method and path of the compiled one
WrittenOperation ==
    IF originalSpec = <<>> THEN operation
    ELSE originalSpec[1][CHOOSE k \in 1..Len(originalSpec[1]) :
             /\ originalSpec[1][k].path = operation.path
             /\ originalSpec[1][k].httpMethod = operation.httpMethod]

\* the type expression of the response descriptor of a status key
ResponseTypeOf(key) ==
    method[1].responses[CHOOSE j \in 1..Len(method[1].responses) :
                            method[1].responses[j].status = parseInt(key)].type

IsArrayOfNamed(w) ==
    w # <<>> /\ w[1].type = "array" /\ w[1].items # <<>> /\ w[1].items[1].ref # <<>>

IsNamed(w) == w # <<>> /\ w[1].ref # <<>>

ArrayOfNamedResponses ==
    { i \in 1..Len(WrittenOperation.responses) :
        IsArrayOfNamed(WrittenOperation.responses[i].value.schema) }

NamedResponses ==
    { i \in 1..Len(WrittenOperation.responses) :
        IsNamed(WrittenOperation.responses[i].value.schema) }

\* the type expression 'NDto[]' of a schema written as an array of $ref N
ArrayTypeOfNamed(w) == Last(w[1].items[1].ref) \o Dto \o ArraySuffix

ArrayResponsesTyped ==
    \A i \in ArrayOfNamedResponses :
        /\ ResponseTypeOf(WrittenOperation.responses[i].key)
              = ArrayTypeOfNamed(WrittenOperation.responses[i].value.schema)
        /\ SuccessCodes = {parseInt(WrittenOperation.responses[i].key)} =>
              returnType[1] = ArrayTypeOfNamed(WrittenOperation.responses[i].value.schema)

\* C18: a response whose JSON schema is written as an array of $ref N has
\* the type expression 'NDto[]', and so has the return type of an operation
\* whose only success response it is; this holds for a document without its
\* original and for an operation with an operationId of a document that
\* carries its original.
C18_ArrayOfNamedSchema ==
    Compiled /\ (originalSpec = <<>> \/ operation.operationId # <<>>) =>
        ArrayResponsesTyped

\* what holds: the array type is produced for the documents without original
ArrayTypeWithoutOriginal ==
    Compiled /\ originalSpec = <<>> => ArrayResponsesTyped

\* the operation is found in the original and the array suffix is lost
ArraySuffixLost ==
    /\ Compiled /\ originalSpec # <<>> /\ operation.operationId # <<>>
    /\ \E i \in ArrayOfNamedResponses :
          ResponseTypeOf(WrittenOperation.responses[i].key)
              = Last(WrittenOperation.responses[i].value.schema[1].items[1].ref) \o Dto

BodyRecovered ==
    (WrittenOperation.requestBody # <<>>
     /\ IsNamed(WrittenOperation.requestBody[1].schema)) =>
        /\ method[1].bodyParam # <<>>
        /\ method[1].bodyParam[1].type
              = Last(WrittenOperation.requestBody[1].schema[1].ref) \o Dto

ResponsesRecovered ==
    \A i \in NamedResponses :
        ResponseTypeOf(WrittenOperation.responses[i].key)
            = Last(WrittenOperation.responses[i].value.schema[1].ref) \o Dto

\* C19: for every operation of a document that carries its original, a
\* request body or response whose JSON schema is written as a $ref to N has
\* the type expression 'NDto', N being the name written for that operation
\* and that status code.
C19_NameRecovered ==
    Compiled /\ originalSpec # <<>> => BodyRecovered /\ ResponsesRecovered

\* what holds: the name is recovered for the operations with an operationId
NameRecoveredById ==
    Compiled /\ originalSpec # <<>> /\ operation.operationId # <<>> =>
        BodyRecovered /\ ResponsesRecovered

\* an operation with an operationId whose body and responses are written as
\* references to names that the other operation does not use at these places
NameRecoveredWitness ==
    /\ Compiled /\ originalSpec # <<>> /\ operation.operationId = <<"o","p">>
    /\ WrittenOperation.requestBody # <<>>
    /\ IsNamed(WrittenOperation.requestBody[1].schema)
    /\ method[1].bodyParam[1].type = Item \o Dto
    /\ Cardinality(NamedResponses) = 2
    /\ ResponseTypeOf(Created) = Item \o Dto
    /\ ResponseTypeOf(NotFound) = PartialItem \o Dto
    /\ originalSpec[1][1].operationId = <<"o","q">>

----------------------------------------------------------------------------
(* Properties of the pass for one spec file *)

\* the outputs the configuration enables for the spec file
EnabledOutputs ==
    (IF pass.generateDtos /\ pass.hasSchemas THEN {"dto"} ELSE {})
    \cup (IF pass.generateControllers /\ pass.hasPaths THEN {"controller"} ELSE {})
    \cup (IF pass.generateServices /\ pass.hasPaths THEN {"service"} ELSE {})

\* C20: a pass that has failed has rendered no template and written no
\* output file for the spec file, and a pass that has ended without error
\* has written every output the configuration enables.
C20_AllOrNothing ==
    /\ pass.step = "failed" => renderedTemplates = {} /\ writtenFiles = {}
    /\ pass.step = "done" => writtenFiles = EnabledOutputs

\* what holds: a pass without error has rendered and written every enabled
\* output, and the files of a failed pass are among the enabled ones
AllWhenDone ==
    /\ pass.step = "done" =>
          renderedTemplates = EnabledOutputs /\ writtenFiles = EnabledOutputs
    /\ pass.step = "failed" => writtenFiles \subseteq EnabledOutputs

\* the DTO file is written and the controller step throws the TypeError
PartialOutput ==
    /\ pass.step = "failed"
    /\ outcome = "TypeError"
    /\ writtenFiles = {"dto"}

\* what a pass reads: the document, dereferenced and as written, and the
\* fields of the generators
InputsKept ==
    /\ document' = document
    /\ hasOriginal' = hasOriginal
    /\ operation' = operation
    /\ originalSpec' = originalSpec
    /\ config' = config
    /\ includeErrorTypesInReturnType' = includeErrorTypesInReturnType

\* the second pass has ended and handed over what the first pass did
SameAsPrevious ==
    (pc = "done" /\ previous # <<>>) =>
        /\ method = previous[1].method
        /\ returnType = previous[1].returnType
        /\ (requested = previous[1].requested) =>
               (batch = previous[1].batch /\ enums = previous[1].enums)

ExitCodeOf(call) == exitCode = IF call.step = "threw" THEN "1" ELSE "0"

\* C22 as stated: whenever a pass has ended and its caller has resumed, in
\* one-shot and in watch mode, the process has ended with 1 if the pass
\* failed and with 0 if it succeeded
C22_ExitCode ==
    \A i \in 1..Len(runs) : runs[i].resumed => ExitCodeOf(runs[i])

\* C22 amended: the exit code follows the pass in one-shot mode; in watch
\* mode no pass ends the process, which ends with 0 (SIGINT) or not at all
C22_ExitCodeOnce ==
    /\ ~watch => \A i \in 1..Len(runs) : runs[i].resumed => ExitCodeOf(runs[i])
    /\ watch => exitCode \in {"none", "0"}

\* a one-shot pass has failed after the outputs of a first spec file
C22_Witness ==
    /\ ~watch
    /\ exitCode = "1"
    /\ runs[1].step = "threw"
    /\ outputFiles # {}

\* in watch mode a pass has failed and the process has ended with 0
FailedPassExitZero ==
    /\ watch
    /\ exitCode = "0"
    /\ Threw # {}

\* the imports of the model of a named schema
ImportsOf(dtoName) ==
    Range(processSchema(document, dtoName,
                        SchemaToCompile(hasOriginal, StripDto(dtoName))).imports)

\* the names a set of models imports for which the document has a schema
BackedImports(S) == { y \in NamedDtos : \E x \in S : y \in ImportsOf(x) }

RECURSIVE BackedClosure(_)
BackedClosure(S) ==
    IF BackedImports(S) \subseteq S THEN S ELSE BackedClosure(S \cup BackedImports(S))

\* the names the models of the batch import for which the document has no
\* schema
DroppedNames ==
    { y \in UNION { Range(batch[i].imports) : i \in 1..Len(batch) } :
        y \notin NamedDtos }

RenderedOne == Rendered /\ requested # <<>>

\* generateDto has dropped a name without schema
DroppedOne == pc = "done" /\ requested # <<>> /\ DroppedNames # {}

\* the batch has no entry for a name without schema, and a dependency that
\* lies on no cycle precedes its dependent
InDependencyOrder ==
    /\ outcome = "rendered"
    /\ BatchNames \subseteq NamedDtos
    /\ sorted = [i \in 1..Len(batch) |-> batch[i].name]
    /\ \A x, y \in BatchNames :
          (DependsOn(x, y) /\ ~Reaches(y, x))
             => Position(sorted, y) < Position(sorted, x)

\* C23: when generateDto drops a name without schema it ends by handing
\* over a batch that has no entry for that name, that holds every model
\* with a schema reached from the requested one, and in which a dependency
\* that lies on no cycle precedes its dependent.
C23_DanglingDropped ==
    DroppedOne =>
        /\ InDependencyOrder
        /\ BackedClosure({requested}) \subseteq BatchNames

\* the same for the documents that carry their original; without it the
\* batch is in order and has no entry for the name
DanglingDroppedWithOriginal ==
    DroppedOne =>
        /\ InDependencyOrder
        /\ hasOriginal => BackedClosure({requested}) \subseteq BatchNames

\* with the original, generateDto has dropped a name without schema beside
\* a model it emits before the requested one
DanglingDroppedBesideModel ==
    /\ DroppedOne
    /\ hasOriginal
    /\ Len(batch) = 2
    /\ batch[2].name = requested

\* without the original, a name without schema and a model with a schema
\* have been dropped
BackedModelDropped ==
    /\ DroppedOne
    /\ ~hasOriginal
    /\ ~(BackedClosure({requested}) \subseteq BatchNames)

\* the placeholders '{name}' of a path: where the braces stand
Placeholders(path) ==
    { pl \in (1..Len(path)) \X (1..Len(path)) :
        /\ pl[1] + 1 < pl[2]
        /\ path[pl[1]] = "{"
        /\ path[pl[2]] = "}"
        /\ \A k \in (pl[1] + 1)..(pl[2] - 1) : path[k] \notin {"/", "{", "}"} }

PlaceholderName(path, pl) == SubSeq(path, pl[1] + 1, pl[2] - 1)

Contains(str, sub) ==
    \E k \in 0..(Len(str) - Len(sub)) : SubSeq(str, k + 1, k + Len(sub)) = sub

\* C24: every placeholder '{name}' of the path of an operation stands as
\* ':name' in the route path of the method compiled from it, and no longer
\* as '{name}'.
C24_PathParametersConverted ==
    Compiled =>
        \A pl \in Placeholders(operation.path) :
            /\ Contains(method[1].path, <<":">> \o PlaceholderName(operation.path, pl))
            /\ ~Contains(method[1].path,
                         <<"{">> \o PlaceholderName(operation.path, pl) \o <<"}">>)

\* the route path of a method is the path of the document, character by
\* character
RoutePathKept == Compiled => method[1].path = operation.path

\* a method has been compiled from a path with a placeholder, which stands
\* in its route path as written
PlaceholderKept ==
    /\ Compiled
    /\ Placeholders(operation.path) # {}
    /\ method[1].path = operation.path

\* the registered models in the order in which the traversal of
\* topologicalSort enters them
RECURSIVE Discover(_, _, _)
Discover(dependencies, nodes, order) ==
    IF nodes = <<>> THEN order
    ELSE IF nodes[1] \in Range(order) \/ ~MapHas(dependencies, nodes[1])
         THEN Discover(dependencies, Tail(nodes), order)
         ELSE Discover(dependencies, Tail(nodes),
                  Discover(dependencies, MapGet(dependencies, nodes[1]),
                           Append(order, nodes[1])))

DiscoveryOrder == Discover(depMap, MapKeys(depMap), <<>>)

\* two models of one cyclic group
SameCycle(x, y) == x # y /\ Reaches(x, y) /\ Reaches(y, x)

DiscoveredBefore(x, y) == Position(DiscoveryOrder, x) < Position(DiscoveryOrder, y)

\* C25 as stated: two models of one cyclic group stand in the output in the
\* order in which the traversal discovered them
C25_CycleInDiscoveryOrder ==
    pc = "done" =>
        \A x, y \in Range(MapKeys(depMap)) :
            (SameCycle(x, y) /\ DiscoveredBefore(x, y))
               => Position(sorted, x) < Position(sorted, y)

\* C25 amended: the model of a cyclic group that the traversal discovers
\* first stands in the output after every other model of the group
C25_FirstDiscoveredLast ==
    pc = "done" =>
        \A x, y \in Range(MapKeys(depMap)) :
            (/\ SameCycle(x, y)
             /\ \A z \in Range(MapKeys(depMap)) :
                   SameCycle(x, z) => DiscoveredBefore(x, z))
               => Position(sorted, y) < Position(sorted, x)

\* a cycle of three models has been put out in the reverse of the order of
\* discovery
C25_Witness ==
    /\ pc = "done"
    /\ Len(sorted) = 3
    /\ \A x, y \in Range(sorted) : x # y => SameCycle(x, y)
    /\ \A i \in 1..3 : sorted[i] = DiscoveryOrder[4 - i]

\* every output of a spec file is on disk
OutputsWritten(k) ==
    \A j \in 1..Len(Kinds) : <<specPaths[k].name, Kinds[j]>> \in outputFiles

\* a call has taken up the spec files in the order of findSpecs, each after
\* the one before it was processed without error and its outputs written
TakenInOrder(call) ==
    /\ call.at <= Len(specPaths)
    /\ call.processed = [k \in 1..call.at |-> specPaths[k].name]
    /\ \A k \in 1..(call.at - 1) :
          specPaths[k].fault = "none" /\ OutputsWritten(k)

\* C26: every call of generate takes up the spec files one after another
\* in the order of findSpecs; it ends with the error of the first spec file
\* that fails, without taking up a later one and with the outputs of the
\* earlier ones on disk; it returns when the last spec file is done, and
\* with no spec file it returns with nothing written.
C26_HaltsOnFirstFailure ==
    \A i \in 1..Len(runs) :
        /\ TakenInOrder(runs[i])
        /\ runs[i].step = "threw" => specPaths[runs[i].at].fault # "none"
        /\ runs[i].step = "returned" =>
              /\ runs[i].at = Len(specPaths)
              /\ \A k \in 1..Len(specPaths) :
                    specPaths[k].fault = "none" /\ OutputsWritten(k)
        /\ specPaths = <<>> => (runs[i].step # "threw" /\ outputFiles = {})

\* a one-shot call has failed at the second spec file with the outputs of
\* the first on disk, and the command line has seen the error
C26_Witness ==
    /\ ~watch
    /\ Len(runs) = 1
    /\ runs[1].step = "threw"
    /\ runs[1].at = 2
    /\ runs[1].resumed
    /\ OutputsWritten(1)

\* C27: the batch of generateDto is the output of the orderer, every model
\* in it is named once, and the requested model is the last one, so that
\* every model collected through its references precedes it.
C27_MainDtoLast ==
    RenderedOne =>
        /\ sorted = [i \in 1..Len(batch) |-> batch[i].name]
        /\ Injective(sorted)
        /\ batch # <<>>
        /\ batch[Len(batch)].name = requested
        /\ \A x \in BatchNames \ {requested} :
              /\ Reaches(requested, x)
              /\ Position(sorted, x) < Position(sorted, requested)

\* generateDto has put the requested model after a model that it refers to
\* and that refers back to it
C27_Witness ==
    /\ RenderedOne
    /\ Len(batch) = 2
    /\ DependsOn(requested, batch[1].name)
    /\ DependsOn(batch[1].name, requested)
    /\ batch[2].name = requested

\* C28: in watch mode every file event has started a call of generate, no
\* failure of a call ends the process with an error, and the watcher keeps
\* watching until the process is ended from outside.
C28_WatcherSurvivesFailure ==
    watch =>
        /\ Len(runs) = events
        /\ exitCode # "1"
        /\ (pc # "cli" /\ exitCode = "none") => pc = "watching"

\* a file event has started a pass after the failure of the pass before was
\* caught
C28_Witness ==
    /\ watch
    /\ Len(runs) = 2
    /\ runs[1].step = "threw"
    /\ runs[2].after = 1

\* the calls of generate that have started and not ended
InFlight == {i \in 1..Len(runs) : ~Settled(runs[i])}

\* the calls whose writeFile for an output file has not answered
Writers(target) ==
    {i \in 1..Len(runs) : runs[i].step = "write" /\ Target(runs[i]) = target}

\* C29: in watch mode at most one pass is in flight at any time, and no
\* output file is being written by two passes.
C29_PassesSerialized ==
    watch =>
        /\ Cardinality(InFlight) <= 1
        /\ \A i \in 1..Len(runs) :
              runs[i].step = "write" => Writers(Target(runs[i])) = {i}

\* two passes of the watcher are writing the same output file
TwoWritersOfOneFile ==
    /\ watch
    /\ \E i, j \in 1..Len(runs) :
          /\ i # j
          /\ runs[i].step = "write"
          /\ runs[j].step = "write"
          /\ Target(runs[i]) = Target(runs[j])

\* without --watch there is one pass
OnePassOnce == ~watch => Len(runs) <= 1

\* C30: in every enum descriptor handed to the template, two members with
\* different literal values have different keys.
C30_EnumKeysDistinct ==
    Rendered =>
        \A i \in 1..Len(enums) :
            \A j, k \in 1..Len(enums[i].values) :
                enums[i].values[j].value # enums[i].values[k].value
                    => enums[i].values[j].key # enums[i].values[k].key

\* every member has the key computed from its own value, in the order of
\* the enum list
EnumKeysFromValues ==
    Rendered =>
        \A i \in 1..Len(enums) :
            \A j \in 1..Len(enums[i].values) :
                enums[i].values[j].key = EnumKey(enums[i].values[j].value)

\* an enum descriptor with two members of one key has been handed over
EnumKeysCollide ==
    /\ Rendered
    /\ \E i \in 1..Len(enums) :
          /\ Len(enums[i].values) = 2
          /\ enums[i].values[1].value # enums[i].values[2].value
          /\ enums[i].values[1].key = enums[i].values[2].key

====
